---- MODULE Spec2Model ----
(***************************************************************************)
(* A state-machine model of the AGIS-style block solver of GaiaLab         *)
(* (src/GaiaLab/scan/analytic_scanner/agis.py): classes Calc_source and    *)
(* Agis.  Numbers are integers on a small grid: angles, times and spline   *)
(* coefficients are exact, and the numerical kernels that live outside     *)
(* agis.py (agis_functions, frame_transformations, quaternion, satellite,  *)
(* source) are modelled to first order about the reference direction       *)
(* (1, 0, 0), with exact integer-quaternion rotations.                     *)
(***************************************************************************)
EXTENDS Integers, Sequences, FiniteSets, TLC

VARIABLES
    updating,          \* Agis.updating: the mode string
    verbose,           \* Agis.verbose
    calc_sources,      \* Agis.calc_sources: sequence of Calc_source records
    real_sources,      \* Agis.real_sources: sequence of reference sources
    iter_counter,      \* Agis.iter_counter
    att_coeffs,        \* Agis.att_coeffs: 4 rows (w, x, y, z) of N coefficients
    att_knots,         \* Agis.att_knots
    attitude_splines,  \* coefficient rows held by the four BSpline objects
    time_dict,         \* Agis.time_dict: observation time -> source index
    all_obs_times,     \* Agis.all_obs_times: merged sorted observation times
    att_bases,         \* Agis.att_bases: basis value of each coefficient at each time
    attitude_regularisation_factor,
    degree_error,      \* Agis.degree_error
    self_d,            \* Agis.d: the last attitude increment, <<>> before the first
    self_c_update,     \* Agis.c_update: the last coefficient update, <<>> before the first
    self_N_aa,         \* Agis.N_aa: the last assembled attitude normal matrix, <<>> before
    self_h,            \* Agis.h: the last assembled attitude right-hand side, <<>> before
    pc,                \* position inside the running call ("idle" between calls)
    call,              \* the running / last call: operation, arguments, progress
    status,            \* outcome of the last call: "ok" or the exception raised
    ret,               \* value returned by the last call that returns one
    trace,             \* what the running / last call evaluated, in order
    ncalls,            \* number of calls made so far
    scanner            \* the Scanner object: its result lists

vars == <<updating, verbose, calc_sources, real_sources, iter_counter,
          att_coeffs, att_knots, attitude_splines, time_dict, all_obs_times,
          att_bases, attitude_regularisation_factor, degree_error,
          self_d, self_c_update, self_N_aa, self_h,
          pc, call, status, ret, trace, ncalls, scanner>>

----------------------------------------------------------------------------
(* Bounds of the model *)

MaxStars == 2
MaxNum == 2
MaxCalls == 2
MaxScans == 4

(* Program constants *)

NParams == 5
t_ep == 0
spline_degree == 1

----------------------------------------------------------------------------
(* Small linear algebra on sequences *)

RECURSIVE SumSeq(_)
SumSeq(s) == IF s = <<>> THEN 0 ELSE Head(s) + SumSeq(Tail(s))

(* The tuple (tuple of tuples) with the elements of s (A), evaluated once *)
Vec(s) == s \o <<>>

Mat(A) == Vec([i \in 1..Len(A) |-> Vec(A[i])])

Dot(u, v) == SumSeq(Vec([j \in 1..Len(u) |-> u[j] * v[j]]))

VecAdd(u, v) == Vec([j \in 1..Len(u) |-> u[j] + v[j]])

VecScale(c, u) == Vec([j \in 1..Len(u) |-> c * u[j]])

ZeroVec(n) == Vec([j \in 1..n |-> 0])

IsZeroMatrix(M) == \A i \in 1..Len(M) : \A j \in 1..Len(M[i]) : M[i][j] = 0

SwapRows(M, a, b) ==
    Vec([i \in 1..Len(M) |-> IF i = a THEN M[b] ELSE IF i = b THEN M[a] ELSE M[i]])

Abs(x) == IF x < 0 THEN 0 - x ELSE x

(* Three primes below 2^15.5: products of residues stay within 32 bits, and  *)
(* an integer below their product (about 10^14) that all three divide is 0.  *)
Primes == <<46337, 46327, 46309>>

ModRow(row, p) == Vec([j \in 1..Len(row) |-> row[j] % p])

(* One elimination step below the pivot row, on residues modulo p *)
Eliminated(P, step, p) ==
    Vec([i \in 1..Len(P) |->
        IF i > step
        THEN Vec([j \in 1..Len(P) |->
                 (((P[step][step] * P[i][j]) % p) - ((P[i][step] * P[step][j]) % p)) % p])
        ELSE P[i]])

(* Gaussian elimination on the residues modulo the prime p: TRUE when some   *)
(* column has no pivot, that is when the determinant is a multiple of p.     *)
RECURSIVE SingularFrom(_, _, _)
SingularFrom(A, step, p) ==
    IF step > Len(A) THEN FALSE
    ELSE IF \A i \in step..Len(A) : A[i][step] = 0 THEN TRUE
    ELSE SingularFrom(
            Eliminated(SwapRows(A, step,
                                CHOOSE i \in step..Len(A) :
                                    /\ A[i][step] # 0
                                    /\ \A i2 \in step..(i - 1) : A[i2][step] = 0),
                       step, p),
            step + 1, p)

(* A square integer matrix is singular iff its determinant is 0 *)
IsSingular(A) ==
    \A k \in 1..Len(Primes) :
        SingularFrom(Vec([i \in 1..Len(A) |-> ModRow(A[i], Primes[k])]), 1, Primes[k])

(* Determinant by fraction-free elimination with row pivoting. *)
RECURSIVE Bareiss(_, _, _, _)
Bareiss(M, step, prev, sign) ==
    LET n == Len(M)
        rows == {i \in step..n : M[i][step] # 0}
    IN  IF n = 0 THEN sign
        ELSE IF rows = {} THEN 0
        ELSE LET p == CHOOSE i \in rows : \A i2 \in rows : i <= i2
                 P == SwapRows(M, step, p)
                 sg == IF p = step THEN sign ELSE 0 - sign
             IN  IF step = n THEN sg * P[n][n]
                 ELSE Bareiss(
                        Mat([i \in 1..n |-> [j \in 1..n |->
                            IF i > step /\ j > step
                            THEN (P[step][step] * P[i][j] - P[i][step] * P[step][j]) \div prev
                            ELSE P[i][j]]]),
                        step + 1, P[step][step], sg)

Det(M) == Bareiss(M, 1, 1, 1)

ReplaceColumn(M, c, b) ==
    Mat([i \in 1..Len(M) |-> [j \in 1..Len(M) |-> IF j = c THEN b[i] ELSE M[i][j]]])

(* Exact solution of M x = b for a non-singular M (Cramer), rounded to the grid *)
CramerSolve(M, b) ==
    LET D == Det(M)
    IN  Vec([c \in 1..Len(M) |-> Det(ReplaceColumn(M, c, b)) \div D])

----------------------------------------------------------------------------
(* Quaternions.  A quaternion is [v |-> <<w, x, y, z>>, n2 |-> n], standing  *)
(* for v / sqrt(n): Quaternion(w, x, y, z) has n2 = 1 and unit() sets n2 to  *)
(* the squared norm of v, so a unit quaternion is represented exactly.       *)

Quaternion(w, x, y, z) == [v |-> <<w, x, y, z>>, n2 |-> 1]

NormSq(v) == Dot(v, v)

Unit(q) == [v |-> q.v, n2 |-> NormSq(q.v)]

Conjugate(q) == [v |-> <<q.v[1], 0 - q.v[2], 0 - q.v[3], 0 - q.v[4]>>, n2 |-> q.n2]

(* q u q* as the matrix of the quadratic form of v applied to u, over n2 *)
RotationMatrix(v) ==
    LET w == v[1]  x == v[2]  y == v[3]  z == v[4]
    IN  << <<w*w + x*x - y*y - z*z, 2*(x*y - w*z), 2*(x*z + w*y)>>,
           <<2*(x*y + w*z), w*w - x*x + y*y - z*z, 2*(y*z - w*x)>>,
           <<2*(x*z - w*y), 2*(y*z + w*x), w*w - x*x - y*y + z*z>> >>

Rotate(q, u) ==
    LET R == RotationMatrix(q.v)
    IN  Vec([i \in 1..3 |-> IF q.n2 = 0 THEN 0 ELSE Dot(R[i], u) \div q.n2])

(* ft.lmn_to_xyz: a vector of the celestial frame seen in the scanning frame *)
lmn_to_xyz(attitude, vector) == Rotate(Conjugate(attitude), vector)

(* Rotation about the line of sight by a multiple of a quarter turn *)
QuarterTurn(n) ==
    LET r == n % 4
    IN  Unit(IF r = 0 THEN Quaternion(1, 0, 0, 0)
             ELSE IF r = 1 THEN Quaternion(1, 1, 0, 0)
             ELSE IF r = 2 THEN Quaternion(0, 1, 0, 0)
             ELSE Quaternion(1, -1, 0, 0))

----------------------------------------------------------------------------
(* The satellite collaborator: ground-truth attitude and ephemeris *)

func_attitude(t) == QuarterTurn(t)

ephemeris_bcrs(t) == <<1, t % 2, IF t = 0 THEN 1 ELSE 0>>

----------------------------------------------------------------------------
(* Directions and field angles, to first order about (1, 0, 0) *)

compute_pqr(alpha, delta) ==
    [p |-> <<0, 1, 0>>, q |-> <<0, 0, 1>>, r |-> <<1, 0, 0>>]

compute_du_dparallax(r, b_G) == VecAdd(VecScale(Dot(r, b_G), r), VecScale(-1, b_G))

(* Direction of a source with the given parameters as seen from the satellite at t *)
topocentric_direction(params, t) ==
    LET tau == t - t_ep
        pqr == compute_pqr(params[1], params[2])
        par == compute_du_dparallax(pqr.r, ephemeris_bcrs(t))
    IN  VecAdd(pqr.r,
        VecAdd(VecScale(params[1] + params[4] * tau, pqr.p),
        VecAdd(VecScale(params[2] + params[5] * tau, pqr.q),
               VecScale(params[3], par))))

compute_field_angles(Su) == [eta |-> Su[2], zeta |-> Su[3]]

observed_field_angles(real_source, attitude, t) ==
    compute_field_angles(lmn_to_xyz(attitude, topocentric_direction(real_source.params, t)))

calculated_field_angles(calc_source, attitude, t) ==
    compute_field_angles(lmn_to_xyz(attitude, topocentric_direction(calc_source.s_params, t)))

attitude_from_alpha_delta(real_source, t, deviation) ==
    QuarterTurn(t + real_source.params[1] + deviation)

compute_mnu(phi, zeta) ==
    [m |-> <<0 - phi, 1, 0>>, n |-> <<0 - zeta, 0, 1>>, u |-> <<1, phi, zeta>>]

sec(zeta) == 1

----------------------------------------------------------------------------
(* The attitude spline: scipy BSpline of degree spline_degree = 1 on knots   *)
(* whose non-empty intervals all have the same length h.  Basis values are   *)
(* kept multiplied by h, and a spline value s is the quaternion component    *)
(* s / h, carried exactly by the n2 field.                                   *)

M == spline_degree + 1

KnotLength(knots) == knots[Len(knots)] - knots[Len(knots) - 1 - spline_degree]

InInterval(knots, a, t) ==
    /\ knots[a] < knots[a + 1]
    /\ knots[a] <= t
    /\ \/ t < knots[a + 1]
       \/ t = knots[a + 1] /\ t = knots[Len(knots)]

(* h * B_n(t), n counted from 1 *)
BasisValue(knots, n, t) ==
    (IF InInterval(knots, n, t) THEN t - knots[n] ELSE 0)
    + (IF InInterval(knots, n + 1, t) THEN knots[n + 2] - t ELSE 0)

(* h * (value at t of the spline with coefficient row c) *)
SplineValue(knots, c, t) ==
    SumSeq(Vec([n \in 1..Len(c) |-> c[n] * BasisValue(knots, n, t)]))

----------------------------------------------------------------------------
(* Agis: the residual engine.  self is the record of the solver's fields.    *)

NoError == "none"

ScaledQuaternion(v, h) == [v |-> v, n2 |-> h * h]

UnitIf(unit, attitude) == IF unit THEN Unit(attitude) ELSE attitude

get_attitude(self, t, unit) ==
    UnitIf(unit,
           ScaledQuaternion(
               Vec([c \in 1..4 |-> SplineValue(self.att_knots, self.attitude_splines[c], t)]),
               KnotLength(self.att_knots)))

get_attitude_for_source(self, source_index, t) ==
    attitude_from_alpha_delta(self.real_sources[source_index], t,
                              IF source_index - 1 < 0 THEN self.degree_error ELSE 0)

(* attitude_gaia = attitude: one quaternion in both roles *)
SameAttitude(attitude) ==
    [err |-> NoError, attitude |-> attitude, attitude_gaia |-> attitude]

(* Faulty variant: the attitude mode also takes the ground-truth attitude on *)
(* the calculated side                                                       *)
SelectAttitudesTruthOnly(self, source_index, t) ==
    IF self.updating = "source"
    THEN SameAttitude(get_attitude_for_source(self, source_index, t))
    ELSE IF self.updating = "scanned source" \/ self.updating = "attitude"
    THEN SameAttitude(func_attitude(t))
    ELSE [err |-> "ValueError", attitude |-> <<>>, attitude_gaia |-> <<>>]

(* Lines 138-147: the attitudes the mode selects, or the ValueError *)
SelectAttitudes(self, source_index, t) ==
    IF self.updating = "source"
    THEN SameAttitude(get_attitude_for_source(self, source_index, t))
    ELSE IF self.updating = "scanned source"
    THEN SameAttitude(func_attitude(t))
    ELSE IF self.updating = "attitude"
    THEN [err |-> NoError,
          attitude |-> get_attitude(self, t, TRUE),
          attitude_gaia |-> func_attitude(t)]
    ELSE [err |-> "ValueError", attitude |-> <<>>, attitude_gaia |-> <<>>]

FieldAngles(obs, calc) ==
    [err |-> NoError, eta_obs |-> obs.eta, zeta_obs |-> obs.zeta,
     eta_calc |-> calc.eta, zeta_calc |-> calc.zeta]

(* Lines 149-155 *)
FieldAnglesWith(self, source_index, t, sel) ==
    IF sel.err # NoError
    THEN [err |-> sel.err, eta_obs |-> 0, zeta_obs |-> 0, eta_calc |-> 0, zeta_calc |-> 0]
    ELSE FieldAngles(
             observed_field_angles(self.real_sources[source_index], sel.attitude_gaia, t),
             calculated_field_angles(self.calc_sources[source_index], sel.attitude, t))

get_field_angles(self, source_index, t) ==
    FieldAnglesWith(self, source_index, t, SelectAttitudes(self, source_index, t))

deviate_field_angles_color_aberration(self, source_index, t, angles) == angles

(* Lines 179-182: R_eta + R_zeta *)
Residual(a) ==
    IF a.err # NoError THEN [err |-> a.err, val |-> 0]
    ELSE [err |-> NoError, val |-> (a.eta_obs - a.eta_calc) + (a.zeta_obs - a.zeta_calc)]

compute_R_L(self, source_index, t) ==
    Residual(deviate_field_angles_color_aberration(
                 self, source_index, t, get_field_angles(self, source_index, t)))

(* The (source, time) pairs in the order error_function visits them *)
RECURSIVE ObservationPairs(_, _)
ObservationPairs(sources, source_index) ==
    IF source_index > Len(sources) THEN <<>>
    ELSE Vec([j \in 1..Len(sources[source_index].obs_times) |->
                 <<source_index, sources[source_index].obs_times[j]>>])
         \o ObservationPairs(sources, source_index + 1)

RECURSIVE AccumulateError(_, _, _)
RECURSIVE AddSquare(_, _, _, _)

(* Faulty variant: error += R_L, the residual not squared *)
AddResidual(self, pairs, error, R_L) ==
    IF R_L.err # NoError THEN [err |-> R_L.err, val |-> 0]
    ELSE AccumulateError(self, Tail(pairs), error + R_L.val)

(* error += R_L ** 2, then the rest of the loop *)
AddSquare(self, pairs, error, R_L) ==
    IF R_L.err # NoError THEN [err |-> R_L.err, val |-> 0]
    ELSE AccumulateError(self, Tail(pairs), error + R_L.val * R_L.val)

AccumulateError(self, pairs, error) ==
    IF pairs = <<>> THEN [err |-> NoError, val |-> error]
    ELSE AddSquare(self, pairs, error, compute_R_L(self, Head(pairs)[1], Head(pairs)[2]))

error_function(self) == AccumulateError(self, ObservationPairs(self.calc_sources, 1), 0)

----------------------------------------------------------------------------
(* Agis: the source block *)

(* du_ds[:, :, j]: the five derivative vectors at the j-th observation *)
du_tilde_ds(self, source_index) ==
    LET calc_source == self.calc_sources[source_index]
        pqr == compute_pqr(calc_source.s_params[1], calc_source.s_params[2])
    IN  Vec([j \in 1..Len(calc_source.obs_times) |->
            <<pqr.p, pqr.q,
              compute_du_dparallax(pqr.r, ephemeris_bcrs(calc_source.obs_times[j])),
              VecScale(calc_source.obs_times[j] - t_ep, pqr.p),
              VecScale(calc_source.obs_times[j] - t_ep, pqr.q)>>])

(* The attitude the source-block Jacobian rotates with at t_L *)
JacobianAttitude(self, source_index, t_L) ==
    IF self.updating = "source"
    THEN [err |-> NoError, attitude |-> get_attitude_for_source(self, source_index, t_L)]
    ELSE IF self.updating = "scanned source"
    THEN [err |-> NoError, attitude |-> func_attitude(t_L)]
    ELSE [err |-> "ValueError", attitude |-> <<>>]

(* The attitudes at the observation times of one source, in order *)
JacobianAttitudes(self, source_index) ==
    Vec([j \in 1..Len(self.calc_sources[source_index].obs_times) |->
            JacobianAttitude(self, source_index, self.calc_sources[source_index].obs_times[j])])

RotateAll(C_du_ds, att) ==
    IF \E j \in 1..Len(att) : att[j].err # NoError
    THEN [err |-> "ValueError", val |-> <<>>]
    ELSE [err |-> NoError,
          val |-> Mat([j \in 1..Len(C_du_ds) |->
                      [i \in 1..NParams |-> lmn_to_xyz(att[j].attitude, C_du_ds[j][i])]])]

C_du_ds_to_S_du_ds(self, source_index, C_du_ds) ==
    RotateAll(C_du_ds, JacobianAttitudes(self, source_index))

du_ds(self, source_index) ==
    IF self.consider_stellar_aberation
    THEN [err |-> "ValueError", val |-> <<>>]
    ELSE C_du_ds_to_S_du_ds(self, source_index, du_tilde_ds(self, source_index))

compute_deviated_angles_color_aberration(phi, zeta, color, error) ==
    [eta |-> phi, zeta |-> zeta + color * error]

(* Lines 328-331: -m.S_du_ds*sec(zeta) - n.S_du_ds for the five parameters *)
RowFromAngles(S_du_ds_i, mnu, zeta) ==
    Vec([c \in 1..NParams |->
            (0 - Dot(mnu.m, S_du_ds_i[c])) * sec(zeta) + (0 - Dot(mnu.n, S_du_ds_i[c]))])

DeviatedRow(S_du_ds_i, dev) == RowFromAngles(S_du_ds_i, compute_mnu(dev.eta, dev.zeta), dev.zeta)

ColorDeviated(angles, color, error) ==
    compute_deviated_angles_color_aberration(angles.eta, angles.zeta, color, error)

(* Lines 325-326: the angles phi, zeta behind m, n and sec(zeta) of row i (i *)
(* counted from 1): the field angles are computed at the loop index,         *)
(* Python's i, where a time is expected                                      *)
dR_ds_angles(self, source_index, i, attitude) ==
    ColorDeviated(
        calculated_field_angles(self.calc_sources[source_index], attitude, i - 1),
        self.calc_sources[source_index].mean_color, self.degree_error)

dR_ds_row(self, source_index, i, S_du_ds, attitude) ==
    DeviatedRow(S_du_ds[i], dR_ds_angles(self, source_index, i, attitude))

dR_ds_rows(self, source_index, S, att) ==
    IF S.err # NoError THEN [err |-> S.err, val |-> <<>>]
    ELSE IF \E i \in 1..Len(att) : att[i].err # NoError
    THEN [err |-> "ValueError", val |-> <<>>]
    ELSE [err |-> NoError,
          val |-> Vec([i \in 1..Len(att) |->
                      dR_ds_row(self, source_index, i, S.val, att[i].attitude)])]

dR_ds(self, source_index) ==
    dR_ds_rows(self, source_index, du_ds(self, source_index),
               JacobianAttitudes(self, source_index))

Negated(d) ==
    IF d.err # NoError THEN d
    ELSE [err |-> NoError, val |-> Vec([i \in 1..Len(d.val) |-> VecScale(-1, d.val[i])])]

block_S_error_rate_matrix(self, source_index) == Negated(dR_ds(self, source_index))

Gathered(R) ==
    IF \E i \in 1..Len(R) : R[i].err # NoError
    THEN [err |-> "ValueError", val |-> <<>>]
    ELSE [err |-> NoError, val |-> Vec([i \in 1..Len(R) |-> R[i].val])]

compute_h(self, source_index) ==
    Gathered(Vec([i \in 1..Len(self.calc_sources[source_index].obs_times) |->
                     compute_R_L(self, source_index,
                                 self.calc_sources[source_index].obs_times[i])]))

(* A^T W A and A^T W h with W the identity, A of shape (observations, n) *)
NormalMatrix(A, n) ==
    Mat([a \in 1..n |-> [b \in 1..n |-> SumSeq(Vec([i \in 1..Len(A) |-> A[i][a] * A[i][b]]))]])

NormalRHS(A, h, n) ==
    Vec([a \in 1..n |-> SumSeq(Vec([i \in 1..Len(A) |-> A[i][a] * h[i]]))])

(* What the LU factorisation in floating point may leave in d when the      *)
(* matrix is singular but no pivot comes out exactly zero                    *)
RoundoffSolutions(n) == {Vec([j \in 1..n |-> IF j % NParams = 1 THEN 1 ELSE 0])}

(* np.linalg.solve: the outcomes [err, d].  A non-singular system has its    *)
(* solution.  LAPACK reports a singular matrix only on an exactly zero       *)
(* pivot: the zero matrix always raises, any other singular matrix may raise *)
(* or may come back with a vector that solves nothing.                       *)
linalg_solve(LHS, RHS) ==
    IF ~IsSingular(LHS)
    THEN {[err |-> NoError, d |-> CramerSolve(LHS, RHS)]}
    ELSE IF IsZeroMatrix(LHS)
    THEN {[err |-> "LinAlgError", d |-> ZeroVec(Len(LHS))]}
    ELSE {[err |-> "LinAlgError", d |-> ZeroVec(Len(LHS))]}
         \cup {[err |-> NoError, d |-> g] : g \in RoundoffSolutions(Len(LHS))}

(* Lines 221-223 *)
SolveNormalEquations(A, h) ==
    IF A.err # NoError THEN {[err |-> A.err, d |-> ZeroVec(NParams)]}
    ELSE IF h.err # NoError THEN {[err |-> h.err, d |-> ZeroVec(NParams)]}
    ELSE linalg_solve(NormalMatrix(A.val, NParams), NormalRHS(A.val, h.val, NParams))

(* update_block_S_i up to the solve: the outcomes [err, d] *)
block_S_increments(self, source_index) ==
    SolveNormalEquations(block_S_error_rate_matrix(self, source_index),
                         compute_h(self, source_index))

(* Faulty variant: the increment of one source lands on every source *)
apply_increment_all(sources, source_index, d) ==
    [j \in 1..Len(sources) |-> [sources[j] EXCEPT !.s_params = VecAdd(@, d)]]

(* The calculated sources after s_params[:] += d on source #source_index *)
apply_increment(sources, source_index, d) ==
    [sources EXCEPT ![source_index].s_params = VecAdd(@, d)]

----------------------------------------------------------------------------
(* Agis: the attitude block.  With h the knot interval length, the basis     *)
(* table holds h * B_n(t); gradients and residuals below carry the factor    *)
(* h * h, which cancels in the normal equations LHS d = RHS.                 *)

get_basis_Bsplines(knots, coeffs, times) ==
    Mat([n \in 1..Len(coeffs) |-> [j \in 1..Len(times) |-> BasisValue(knots, n, times[j])]])

(* Sub-sequence of the times lying in the support of basis function n_index *)
get_times_in_knot_interval(time_array, knots, n_index) ==
    SelectSeq(time_array, LAMBDA t : knots[n_index] <= t /\ t <= knots[n_index + M])

(* list(self.all_obs_times).index(t_L), counted from 1 *)
IndexOf(seq, x) == CHOOSE j \in 1..Len(seq) : seq[j] = x /\ \A j2 \in 1..(j - 1) : seq[j2] # x

compute_coeff_basis_sum(coeffs, bases, obs_time_index) ==
    Vec([c \in 1..4 |->
            SumSeq(Vec([n \in 1..Len(coeffs[c]) |-> coeffs[c][n] * bases[n][obs_time_index]]))])

(* h^2 * D_L, D_L = 1 - |q|^2 *)
compute_attitude_deviation(h, coeff_basis_sum) == h * h - NormSq(coeff_basis_sum)

(* h^2 * dD_L/da_i = -2 q B_i *)
compute_DL_da_i(coeff_basis_sum, bases, obs_time_index, i) ==
    VecScale(0 - 2 * bases[i][obs_time_index], coeff_basis_sum)

(* Derivatives with respect to (w, x, y, z) of row r of RotationMatrix(v) u *)
RotationGradient(v, u, r) ==
    LET w == v[1]  x == v[2]  y == v[3]  z == v[4]
    IN  IF r = 1 THEN
            <<2*w*u[1] - 2*z*u[2] + 2*y*u[3], 2*x*u[1] + 2*y*u[2] + 2*z*u[3],
              2*x*u[2] - 2*y*u[1] + 2*w*u[3], 2*x*u[3] - 2*z*u[1] - 2*w*u[2]>>
        ELSE IF r = 2 THEN
            <<2*z*u[1] + 2*w*u[2] - 2*x*u[3], 2*y*u[1] - 2*x*u[2] - 2*w*u[3],
              2*x*u[1] + 2*y*u[2] + 2*z*u[3], 2*w*u[1] - 2*z*u[2] + 2*y*u[3]>>
        ELSE
            <<2*x*u[2] - 2*y*u[1] + 2*w*u[3], 2*z*u[1] + 2*w*u[2] - 2*x*u[3],
              2*z*u[2] - 2*w*u[1] - 2*y*u[3], 2*x*u[1] + 2*y*u[2] + 2*z*u[3]>>

ConjugateGradient(g) == <<0 - g[1], g[2], g[3], g[4]>>

GradientSum(cv, u) == VecAdd(RotationGradient(cv, u, 2), RotationGradient(cv, u, 3))

(* h * dR/dq at the attitude q = v / h: minus the gradient of the calculated *)
(* along + across field angle through lmn_to_xyz (rotation by the conjugate) *)
compute_dR_dq(calc_source, attitude, t) ==
    ConjugateGradient(GradientSum(Conjugate(attitude).v,
                                  topocentric_direction(calc_source.s_params, t)))

(* h^2 * dR/da_i *)
dR_da_i(dR_dq, basis) == VecScale(basis, dR_dq)

(* Faulty variant: a time that is no key is answered with index 0 *)
get_source_index_defaulting(self, t) ==
    [err |-> NoError, val |-> IF t \in DOMAIN self.time_dict THEN self.time_dict[t] ELSE 0]

get_source_index(self, t) ==
    IF t \in DOMAIN self.time_dict
    THEN [err |-> NoError, val |-> self.time_dict[t]]
    ELSE [err |-> "ValueError", val |-> 0]

(* Lines 456-465 and 489-499 once the indices and the basis sum are known *)
TermsWith(self, t_L, source_index, obs_time_index, coeff_basis_sum, h) ==
    [source_index |-> source_index,
     obs_time_index |-> obs_time_index,
     coeff_basis_sum |-> coeff_basis_sum,
     D_L |-> compute_attitude_deviation(h, coeff_basis_sum),
     dR_dq |-> compute_dR_dq(self.calc_sources[source_index],
                             get_attitude(self, t_L, FALSE), t_L),
     R_L |-> h * h * compute_R_L(self, source_index, t_L).val]

TermsAt(self, t_L, source_index, obs_time_index) ==
    TermsWith(self, t_L, source_index, obs_time_index,
              compute_coeff_basis_sum(self.att_coeffs, self.att_bases, obs_time_index),
              KnotLength(self.att_knots))

(* The terms one observation time contributes to the attitude equations *)
AttitudeTerms(self, t_L) ==
    TermsAt(self, t_L, get_source_index(self, t_L).val, IndexOf(self.all_obs_times, t_L))

(* Faulty variant: the regularisation part is subtracted from rhs *)
RHSTermSubtracting(self, n_index, T) ==
    VecAdd(VecScale(T.R_L, dR_da_i(T.dR_dq, self.att_bases[n_index][T.obs_time_index])),
           VecScale(0 - self.attitude_regularisation_factor * self.attitude_regularisation_factor
                        * T.D_L,
                    compute_DL_da_i(T.coeff_basis_sum, self.att_bases,
                                    T.obs_time_index, n_index)))

(* Lines 466-470: one time's contribution to rhs, with the code's + sign *)
RHSTerm(self, n_index, T) ==
    VecAdd(VecScale(T.R_L, dR_da_i(T.dR_dq, self.att_bases[n_index][T.obs_time_index])),
           VecScale(self.attitude_regularisation_factor * self.attitude_regularisation_factor
                        * T.D_L,
                    compute_DL_da_i(T.coeff_basis_sum, self.att_bases,
                                    T.obs_time_index, n_index)))

SumVectors(terms) == Vec([c \in 1..4 |-> SumSeq(Vec([i \in 1..Len(terms) |-> terms[i][c]]))])

RHSOver(self, n_index, times) ==
    VecScale(-1, SumVectors(Vec([i \in 1..Len(times) |->
                                    RHSTerm(self, n_index, AttitudeTerms(self, times[i]))])))

compute_attitude_RHS_n(self, n_index) ==
    RHSOver(self, n_index,
            get_times_in_knot_interval(self.all_obs_times, self.att_knots, n_index))

(* helpers.get_lists_intersection followed by np.sort *)
get_lists_intersection(a, b) ==
    SortSeq(SelectSeq(a, LAMBDA t : \E j \in 1..Len(b) : b[j] = t), LAMBDA x, y : x < y)

(* Faulty variant: the regularisation product is left out *)
NaaProductsUnregularised(lambda2, dDL_da_n, dDL_da_m, dR_da_n, dR_da_m) ==
    Mat([a \in 1..4 |-> [b \in 1..4 |-> dR_da_n[a] * dR_da_m[b]]])

(* Faulty variant: dR_da_n @ dR_da_n.T, the column span's gradient forgotten *)
NaaProductsOneSided(lambda2, dDL_da_n, dDL_da_m, dR_da_n, dR_da_m) ==
    Mat([a \in 1..4 |-> [b \in 1..4 |->
            lambda2 * dDL_da_n[a] * dDL_da_m[b] + dR_da_n[a] * dR_da_n[b]]])

(* Lines 500-511: one time's contribution to the 4x4 block *)
NaaProducts(lambda2, dDL_da_n, dDL_da_m, dR_da_n, dR_da_m) ==
    Mat([a \in 1..4 |-> [b \in 1..4 |->
            lambda2 * dDL_da_n[a] * dDL_da_m[b] + dR_da_n[a] * dR_da_m[b]]])

NaaTerm(self, m_index, n_index, T) ==
    NaaProducts(self.attitude_regularisation_factor * self.attitude_regularisation_factor,
                compute_DL_da_i(T.coeff_basis_sum, self.att_bases, T.obs_time_index, n_index),
                compute_DL_da_i(T.coeff_basis_sum, self.att_bases, T.obs_time_index, m_index),
                dR_da_i(T.dR_dq, self.att_bases[n_index][T.obs_time_index]),
                dR_da_i(T.dR_dq, self.att_bases[m_index][T.obs_time_index]))

SumMatrices(terms) ==
    Mat([a \in 1..4 |-> [b \in 1..4 |-> SumSeq(Vec([i \in 1..Len(terms) |-> terms[i][a][b]]))]])

NaaOver(self, m_index, n_index, times) ==
    SumMatrices(Vec([i \in 1..Len(times) |->
                        NaaTerm(self, m_index, n_index, AttitudeTerms(self, times[i]))]))

compute_Naa_mn(self, m_index, n_index) ==
    NaaOver(self, m_index, n_index,
            get_lists_intersection(
                get_times_in_knot_interval(self.all_obs_times, self.att_knots, m_index),
                get_times_in_knot_interval(self.all_obs_times, self.att_knots, n_index)))

ZeroMatrix(n) == Mat([r \in 1..n |-> [c \in 1..n |-> 0]])

(* The cells of N_aa[n*4:n*4+4, m*4:m*4+4], spans, rows and columns from 1 *)
block_cells(n, m) ==
    {<<r, c>> : r \in (4 * (n - 1) + 1)..(4 * n), c \in (4 * (m - 1) + 1)..(4 * m)}

(* Faulty variant: the slices advance by 3, so neighbouring blocks overlap *)
write_block_overlapping(N_aa, n, m, block) ==
    Mat([r \in 1..Len(N_aa) |-> [c \in 1..Len(N_aa) |->
            IF /\ r \in (3 * (n - 1) + 1)..(3 * (n - 1) + 4)
               /\ c \in (3 * (m - 1) + 1)..(3 * (m - 1) + 4)
            THEN block[r - 3 * (n - 1)][c - 3 * (m - 1)]
            ELSE N_aa[r][c]]])

(* N_aa[n*4:n*4+4, m*4:m*4+4] = block *)
write_block(N_aa, n, m, block) ==
    Mat([r \in 1..Len(N_aa) |-> [c \in 1..Len(N_aa) |->
            IF <<r, c>> \in block_cells(n, m)
            THEN block[r - 4 * (n - 1)][c - 4 * (m - 1)]
            ELSE N_aa[r][c]]])

(* The (n, m) pairs in the order of the two loops of compute_attitude_LHS *)
LoopOrder(N_aa_dim) ==
    Vec([k \in 1..(N_aa_dim * N_aa_dim) |->
            <<((k - 1) \div N_aa_dim) + 1, ((k - 1) % N_aa_dim) + 1>>])

(* The block writes of compute_attitude_LHS for the pairs in the given order *)
RECURSIVE AssembleBlocks(_, _, _)
AssembleBlocks(self, pairs, N_aa) ==
    IF pairs = <<>> THEN N_aa
    ELSE AssembleBlocks(self, Tail(pairs),
                        write_block(N_aa, Head(pairs)[1], Head(pairs)[2],
                                    compute_Naa_mn(self, Head(pairs)[2], Head(pairs)[1])))

compute_attitude_LHS(self) ==
    AssembleBlocks(self, LoopOrder(Len(self.att_coeffs[1])),
                   ZeroMatrix(4 * Len(self.att_coeffs[1])))

AssembleVector(blocks, N_aa_dim) ==
    Vec([r \in 1..(4 * N_aa_dim) |-> blocks[((r - 1) \div 4) + 1][((r - 1) % 4) + 1]])

compute_attitude_RHS(self) ==
    AssembleVector(Vec([n \in 1..Len(self.att_coeffs[1]) |-> compute_attitude_RHS_n(self, n)]),
                   Len(self.att_coeffs[1]))

(* update_A_block up to the solve: the outcomes [err, d].  A time of the     *)
(* merged list is always a key of time_dict, so the look-up cannot fail.     *)
block_A_increments(self) ==
    linalg_solve(compute_attitude_LHS(self), compute_attitude_RHS(self))

(* c_update = d.reshape(att_coeffs.shape) shares d's memory: flat holds both. *)
(* The loop then runs c_update[c, i] = d[i*4 + c] for i = 0..N-1, c = 0..3,   *)
(* each assignment reading the array as the earlier ones left it.            *)
RECURSIVE reshape_loop(_, _, _)
reshape_loop(flat, step, N) ==
    IF step >= 4 * N THEN flat
    ELSE reshape_loop([flat EXCEPT ![(step % 4) * N + (step \div 4) + 1] = flat[step + 1]],
                      step + 1, N)

Reshaped(flat, N) == Mat([c \in 1..4 |-> [i \in 1..N |-> flat[(c - 1) * N + i]]])

c_update(d, N) == Reshaped(reshape_loop(d, 0, N), N)

AddCoeffs(coeffs, upd) ==
    Mat([c \in 1..4 |-> [i \in 1..Len(coeffs[c]) |-> coeffs[c][i] + upd[c][i]]])

(* self.att_coeffs[:, :] += c_update *)
apply_c_update(coeffs, d) == AddCoeffs(coeffs, c_update(d, Len(coeffs[1])))

(* BSpline(self.att_knots, self.att_coeffs[i], k=self.k) for the four rows *)
actualise_splines(coeffs) == [i \in 1..4 |-> coeffs[i]]

----------------------------------------------------------------------------
(* Construction *)

Modes == {"source", "scanned source", "attitude", "unknown"}

Calc_source(obs_times, source_params, mean_color) ==
    [obs_times |-> obs_times,
     s_params |-> source_params,
     s_old |-> <<[alias |-> TRUE, val |-> <<>>]>>,   \* [self.s_params]: the same array
     errors |-> <<>>,
     mean_color |-> mean_color]

(* Source.get_parameters: a new array (alpha, delta, parallax, mu_alpha,     *)
(* mu_delta, mu_radial) made from the source's fields                        *)
get_parameters(source) == source.params \o <<0>>

(* Calc_source(obs_times=..., source=source): lines 42-47, the guess is the  *)
(* slice params[0:-1] of the array get_parameters returned                   *)
Calc_source_from_source(obs_times, source) ==
    Calc_source(obs_times, SubSeq(get_parameters(source), 1, Len(get_parameters(source)) - 1),
                source.mean_color)

(* The parameter history as values: an aliased entry reads the live vector *)
s_old_values(calc_source) ==
    [e \in 1..Len(calc_source.s_old) |->
        IF calc_source.s_old[e].alias THEN calc_source.s_params
        ELSE calc_source.s_old[e].val]

RECURSIVE BuildTimeDict(_, _, _)
BuildTimeDict(sources, source_index, dict) ==
    IF source_index > Len(sources) THEN dict
    ELSE BuildTimeDict(sources, source_index + 1,
             [t \in DOMAIN dict \cup {sources[source_index].obs_times[j] :
                                         j \in 1..Len(sources[source_index].obs_times)} |->
                 IF \E j \in 1..Len(sources[source_index].obs_times) :
                        sources[source_index].obs_times[j] = t
                 THEN source_index ELSE dict[t]])

RECURSIVE ConcatObsTimes(_, _)
ConcatObsTimes(sources, source_index) ==
    IF source_index > Len(sources) THEN <<>>
    ELSE sources[source_index].obs_times \o ConcatObsTimes(sources, source_index + 1)

SortedObsTimes(sources) == SortSeq(ConcatObsTimes(sources, 1), LAMBDA x, y : x < y)

(* The scenarios the model is run on *)
ScenarioKnots == <<-2, -2, 0, 2, 2>>

TruthCoeffs == << <<0, 1, 0>>, <<-1, 0, 1>>, <<0, 0, 0>>, <<0, 0, 0>> >>

IdentityCoeffs == << <<1, 1, 1>>, <<0, 0, 0>>, <<0, 0, 0>>, <<0, 0, 0>> >>

(* The constant attitude again, with coefficient columns of norm 2 *)
DoubledCoeffs == << <<2, 2, 2>>, <<0, 0, 0>>, <<0, 0, 0>>, <<0, 0, 0>> >>

AttitudeGuesses == {TruthCoeffs, IdentityCoeffs, DoubledCoeffs}

(* The calculated sources of the scenarios: observation list and offset of  *)
(* the initial guess from the reference parameters                          *)
StarKinds ==
    {[obs |-> <<>>, pert |-> <<1, 1, 1, 1, 1>>],
     [obs |-> <<0, 0>>, pert |-> <<1, 1, 1, 1, 1>>],
     [obs |-> <<-2, -1, 0, 1, 2>>, pert |-> <<0, 0, 0, 0, 0>>],
     [obs |-> <<-2, -1, 0, 1, 2>>, pert |-> <<1, 1, 1, 1, 1>>]}

RealSource(i) == [params |-> <<i % 2, (i + 1) % 2, 1, 0, 1>>, mean_color |-> 0]

Self == [updating |-> updating,
         calc_sources |-> calc_sources,
         real_sources |-> real_sources,
         att_coeffs |-> att_coeffs,
         att_knots |-> att_knots,
         attitude_splines |-> attitude_splines,
         att_bases |-> att_bases,
         time_dict |-> time_dict,
         all_obs_times |-> all_obs_times,
         attitude_regularisation_factor |-> attitude_regularisation_factor,
         degree_error |-> degree_error,
         consider_stellar_aberation |-> FALSE]

----------------------------------------------------------------------------
(* Scanner: the collaborator that finds the observation times of a source.   *)
(* Times are whole ticks; the sky of a call (satellite and source) is the    *)
(* set of ticks at which the source crosses the line of view.                *)

(* wide_scan: time_step = 1/24/3, here two ticks *)
time_step == 2

NewScanner ==
    [times_wide_scan |-> <<>>, times_coarse_scan |-> <<>>, times_optimize |-> <<>>,
     optimize_roots |-> <<>>, roots |-> <<>>, obs_times |-> <<>>, step_wide |-> 0]

(* Crossing times of the scenarios: inside the scan intervals, never on the grid *)
Skies == SUBSET {1, 3, 5}

(* ti of the scenarios; tf is ScanEnd *)
ScanStarts == {0, 2}

ScanEnd == 6

(* np.arange(a, b, step) *)
Arange(a, b, step) ==
    IF b <= a THEN <<>>
    ELSE [k \in 1..((b - a + step - 1) \div step) |-> a + (k - 1) * step]

(* The lists are cleared; the attribute step_wide, once set, stays *)
reset_memory(sc) == [NewScanner EXCEPT !.step_wide = sc.step_wide]

(* wide_scan: a root of eta_error is found in [t, t + time_step] when the     *)
(* source crosses inside the interval; brentq returns the crossing time      *)
wide_scan(sc, sky, ti, tf) ==
    LET grid == SelectSeq(Arange(ti, tf - time_step, time_step), LAMBDA t : (t + 1) \in sky)
        x0s == Vec([k \in 1..Len(grid) |-> grid[k] + 1])
    IN  [sc EXCEPT !.optimize_roots =
                       @ \o Vec([k \in 1..Len(x0s) |-> [is_result |-> FALSE, x |-> x0s[k]]]),
                   !.obs_times = @ \o x0s]

(* wide_scan_bis: memory reset, then the grid times with the source in the   *)
(* wide field of view (a crossing within one tick)                           *)
wide_scan_bis(sc, sky, ti, tf) ==
    [reset_memory(sc) EXCEPT
        !.step_wide = time_step,
        !.times_wide_scan =
            SelectSeq(Arange(ti, tf, time_step),
                      LAMBDA t : (t + 1) \in sky \/ (t - 1) \in sky)]

(* coarse_scan: the two nested loops, window of step_wide around each t_wide *)
RECURSIVE coarse_times(_, _, _)
coarse_times(times_wide, step_wide, sky) ==
    IF times_wide = <<>> THEN <<>>
    ELSE SelectSeq(Arange(Head(times_wide) - step_wide \div 2,
                          Head(times_wide) + step_wide \div 2, 1),
                   LAMBDA t : t \in sky)
         \o coarse_times(Tail(times_wide), step_wide, sky)

coarse_scan(sc, sky) ==
    [sc EXCEPT !.times_coarse_scan =
                   @ \o coarse_times(sc.times_wide_scan, sc.step_wide, sky)]

(* list(set(obs_times)) followed by sort() *)
sorted_set(s) ==
    CHOOSE q \in [1..Cardinality({s[k] : k \in DOMAIN s}) -> {s[k] : k \in DOMAIN s}] :
        \A i, j \in DOMAIN q : i < j => q[i] < q[j]

(* fine_scan after its first loop (one successful minimisation per coarse     *)
(* time): the second loop reads obj.x of every entry of optimize_roots and   *)
(* fails on the first entry that is a plain root time left by wide_scan      *)
fine_scan_roots(sc) ==
    LET good == {k \in DOMAIN sc.optimize_roots :
                    \A j \in 1..k : sc.optimize_roots[j].is_result}
        xs == Vec([k \in 1..Cardinality(good) |-> sc.optimize_roots[k].x])
    IN  IF Cardinality(good) = Len(sc.optimize_roots)
        THEN [err |-> NoError,
              sc |-> [sc EXCEPT !.roots = @ \o xs, !.obs_times = sorted_set(@ \o xs)]]
        ELSE [err |-> "AttributeError",
              sc |-> [sc EXCEPT !.roots = @ \o xs, !.obs_times = @ \o xs]]

fine_scan(sc) ==
    fine_scan_roots(
        [sc EXCEPT !.times_optimize = @ \o sc.times_coarse_scan,
                   !.optimize_roots =
                       @ \o Vec([k \in 1..Len(sc.times_coarse_scan) |->
                                    [is_result |-> TRUE, x |-> sc.times_coarse_scan[k]]])])

NoCall == [op |-> "none", prev |-> "none", num |-> 0, done |-> 0, star |-> 0, start |-> 0,
           last_error |-> -1, source_index |-> 0, t |-> 0, m_index |-> 0, n_index |-> 0,
           pass_start |-> <<>>, increments |-> <<>>]

Init ==
    /\ scanner = NewScanner
    /\ updating \in Modes
    /\ verbose \in BOOLEAN
    /\ attitude_regularisation_factor = 0
    /\ degree_error = 0
    /\ self_d = <<>>
    /\ self_c_update = <<>>
    /\ self_N_aa = <<>>
    /\ self_h = <<>>
    /\ \E n \in 0..MaxStars :
         /\ real_sources = [i \in 1..n |-> RealSource(i)]
         /\ \E kind \in [1..n -> StarKinds] :
              calc_sources = [i \in 1..n |->
                  IF kind[i].pert = ZeroVec(NParams)
                  THEN Calc_source_from_source(kind[i].obs, RealSource(i))
                  ELSE Calc_source(kind[i].obs, VecAdd(RealSource(i).params, kind[i].pert),
                                   RealSource(i).mean_color)]
    /\ iter_counter = 0
    /\ time_dict = BuildTimeDict(calc_sources, 1, <<>>)
    /\ all_obs_times = SortedObsTimes(calc_sources)
    /\ att_knots = ScenarioKnots
    /\ att_coeffs \in (IF updating = "attitude" THEN AttitudeGuesses ELSE {TruthCoeffs})
    /\ attitude_splines = actualise_splines(att_coeffs)
    /\ att_bases = get_basis_Bsplines(att_knots, att_coeffs[1], all_obs_times)
    /\ pc = "idle"
    /\ call = NoCall
    /\ status = "ok"
    /\ ret = 0
    /\ trace = <<>>
    /\ ncalls = 0

----------------------------------------------------------------------------
(* Agis.iterate, one step per loop position *)

Event(ev, arg) == [ev |-> ev, arg |-> arg]

(* Faulty variant: the loop also stops once the reported error is zero *)
iterate_continues_until_converged(c) == c.done < c.num /\ c.last_error # 0

(* for i in range(num): the loop goes on while passes remain; the error      *)
(* printed by the last pass (c.last_error) is not consulted                  *)
iterate_continues(c) == c.done < c.num

(* Faulty variant: the scanned-source mode falls into the attitude branch *)
iterate_branch_scanned_to_attitude(mode) ==
    IF mode = "source" THEN "S_block"
    ELSE IF mode = "attitude" \/ mode = "scanned source" THEN "A_block"
    ELSE "none"

(* The branch of iterate taken for the mode *)
iterate_branch(mode) ==
    IF mode = "source" \/ mode = "scanned source" THEN "S_block"
    ELSE IF mode = "attitude" THEN "A_block"
    ELSE "none"

CallIterate(num) ==
    /\ pc = "idle"
    /\ ncalls < MaxCalls
    /\ ncalls' = ncalls + 1
    /\ call' = [NoCall EXCEPT !.op = "iterate", !.num = num, !.start = iter_counter]
    /\ pc' = "loop"
    /\ status' = "running"
    /\ ret' = 0
    /\ trace' = <<>>
    /\ UNCHANGED <<scanner, updating, verbose, calc_sources, real_sources, iter_counter,
                   att_coeffs, att_knots, attitude_splines, time_dict, all_obs_times,
                   att_bases, attitude_regularisation_factor, degree_error,
                   self_d, self_c_update, self_N_aa, self_h>>

IterateReturn ==
    /\ pc = "loop"
    /\ ~iterate_continues(call)
    /\ pc' = "idle"
    /\ status' = "ok"
    /\ UNCHANGED <<scanner, updating, verbose, calc_sources, real_sources, iter_counter,
                   att_coeffs, att_knots, attitude_splines, time_dict, all_obs_times,
                   att_bases, attitude_regularisation_factor, degree_error,
                   self_d, self_c_update, self_N_aa, self_h,
                   call, ret, trace, ncalls>>

(* Faulty variant: the error before the pass is reported whatever verbose is *)
EnterBranchAlwaysReporting(before, branch) ==
    IF before.err # NoError
    THEN /\ status' = before.err
         /\ pc' = "idle"
         /\ UNCHANGED <<trace, call>>
    ELSE /\ status' = status
         /\ trace' = Append(trace, Event("error_before", before.val))
                  \o (IF branch = "S_block" THEN <<Event("update_S_block", 0)>> ELSE <<>>)
         /\ pc' = IF branch = "S_block" /\ Len(calc_sources) > 0 THEN "S_block"
                  ELSE IF branch = "S_block" THEN "pass_end"
                  ELSE IF branch = "A_block" THEN "A_block"
                  ELSE "pass_end"
         /\ call' = [call EXCEPT !.star = 1, !.pass_start = calc_sources,
                                 !.increments = <<>>]

(* Lines 191-198 once the error before the iteration is evaluated *)
EnterBranch(before, branch) ==
    IF verbose /\ before.err # NoError
    THEN /\ status' = before.err
         /\ pc' = "idle"
         /\ UNCHANGED <<trace, call>>
    ELSE /\ status' = status
         /\ trace' = (IF verbose THEN Append(trace, Event("error_before", before.val))
                      ELSE trace)
                  \o (IF branch = "S_block" THEN <<Event("update_S_block", 0)>> ELSE <<>>)
         /\ pc' = IF branch = "S_block" /\ Len(calc_sources) > 0 THEN "S_block"
                  ELSE IF branch = "S_block" THEN "pass_end"
                  ELSE IF branch = "A_block" THEN "A_block"
                  ELSE "pass_end"
         /\ call' = [call EXCEPT !.star = 1, !.pass_start = calc_sources,
                                 !.increments = <<>>]

(* Lines 189-198: count the pass, report the error when verbose, enter the branch *)
PassBegin ==
    /\ pc = "loop"
    /\ iterate_continues(call)
    /\ iter_counter' = iter_counter + 1
    /\ EnterBranch(error_function(Self), iterate_branch(updating))
    /\ UNCHANGED <<scanner, updating, verbose, calc_sources, real_sources,
                   att_coeffs, att_knots, attitude_splines, time_dict, all_obs_times,
                   att_bases, attitude_regularisation_factor, degree_error,
                   self_d, self_c_update, self_N_aa, self_h,
                   ret, ncalls>>

(* Faulty variant: the last history entry is overwritten, nothing appended *)
append_s_old_replacing(sources, i) ==
    [sources EXCEPT ![i].s_old =
        IF @ = <<>> THEN @
        ELSE [@ EXCEPT ![Len(@)] = [alias |-> FALSE, val |-> sources[i].s_params]]]

(* calc_source.s_old.append(calc_source.s_params.copy()) *)
append_s_old(sources, i) ==
    [sources EXCEPT ![i].s_old = Append(@, [alias |-> FALSE, val |-> sources[i].s_params])]

(* calc_source.errors.append(error) *)
append_error(sources, i, error) ==
    [err |-> error.err,
     sources |-> IF error.err # NoError THEN sources
                 ELSE [sources EXCEPT ![i].errors = Append(@, error.val)]]

(* Faulty variant: every source's entry is the error at the start of the pass *)
append_error_of_pass_start(self, sources, i) ==
    append_error(sources, i, error_function([self EXCEPT !.calc_sources = call.pass_start]))

append_error_of(self, sources, i) ==
    append_error(sources, i, error_function([self EXCEPT !.calc_sources = sources]))

(* The histories of source #i after lines 210-211 *)
append_histories(self, i) == append_error_of(self, append_s_old(self.calc_sources, i), i)

(* Faulty variant: a failed solve is swallowed and the loop carries on *)
next_star_pc_catching(out, i, n) == IF i < n THEN "S_block" ELSE "pass_end"

(* Where update_S_block goes after update_block_S_i on source #i of n: an    *)
(* exception leaves the loop and iterate, nothing catches it                 *)
next_star_pc(out, i, n) ==
    IF out.err # NoError THEN "idle"
    ELSE IF i < n THEN "S_block"
    ELSE "pass_end"

(* Lines 210-212 for source #i, hist being the outcome of lines 210-211 *)
SolveStar(i, hist) ==
    IF hist.err # NoError
    THEN /\ calc_sources' = hist.sources
         /\ status' = hist.err
         /\ pc' = "idle"
         /\ UNCHANGED <<trace, call>>
    ELSE \E out \in block_S_increments([Self EXCEPT !.calc_sources = hist.sources], i) :
           /\ trace' = Append(trace, Event("update_block_S_i", i))
           /\ calc_sources' = (IF out.err # NoError THEN hist.sources
                               ELSE apply_increment(hist.sources, i, out.d))
           /\ status' = (IF out.err # NoError THEN out.err ELSE status)
           /\ pc' = next_star_pc(out, i, Len(calc_sources))
           /\ call' = (IF out.err # NoError THEN call
                       ELSE [call EXCEPT !.star = i + 1, !.increments = Append(@, out.d)])

(* Faulty variant: the parameter array of calculated source i is the array  *)
(* of reference source i, so the in-place increment moves both               *)
UpdateSStarSharing ==
    /\ pc = "S_block"
    /\ SolveStar(call.star, append_histories(Self, call.star))
    /\ real_sources' = [real_sources EXCEPT
                            ![call.star].params = calc_sources'[call.star].s_params]
    /\ UNCHANGED <<scanner, updating, verbose, iter_counter,
                   att_coeffs, att_knots, attitude_splines, time_dict, all_obs_times,
                   att_bases, attitude_regularisation_factor, degree_error,
                   self_d, self_c_update, self_N_aa, self_h,
                   ret, ncalls>>

(* update_S_block, the loop body for source #call.star *)
UpdateSStar ==
    /\ pc = "S_block"
    /\ SolveStar(call.star, append_histories(Self, call.star))
    /\ UNCHANGED <<scanner, updating, verbose, real_sources, iter_counter,
                   att_coeffs, att_knots, attitude_splines, time_dict, all_obs_times,
                   att_bases, attitude_regularisation_factor, degree_error,
                   self_d, self_c_update, self_N_aa, self_h,
                   ret, ncalls>>

(* Lines 386-401 once the system is assembled: N_aa and h are stored by the  *)
(* two assembly methods, d by the solve; call.increments keeps the solution  *)
(* as np.linalg.solve returned it                                            *)
SolveAttitude(LHS, RHS) ==
    /\ self_N_aa' = LHS
    /\ self_h' = RHS
    /\ \E out \in linalg_solve(LHS, RHS) :
         /\ trace' = Append(trace, Event("update_A_block", 0))
         /\ IF out.err # NoError
            THEN /\ status' = out.err
                 /\ pc' = "idle"
                 /\ UNCHANGED <<att_coeffs, attitude_splines, self_d, self_c_update, call>>
            ELSE /\ self_d' = reshape_loop(out.d, 0, Len(att_coeffs[1]))
                 /\ self_c_update' = c_update(out.d, Len(att_coeffs[1]))
                 /\ att_coeffs' = apply_c_update(att_coeffs, out.d)
                 /\ attitude_splines' = actualise_splines(att_coeffs')
                 /\ status' = status
                 /\ pc' = "pass_end"
                 /\ call' = [call EXCEPT !.increments = <<out.d>>]

(* update_A_block, then the attitude-fit diagnostic (a pure read) *)
UpdateABlock ==
    /\ pc = "A_block"
    /\ SolveAttitude(compute_attitude_LHS(Self), compute_attitude_RHS(Self))
    /\ UNCHANGED <<scanner, updating, verbose, calc_sources, real_sources, iter_counter,
                   att_knots, time_dict, all_obs_times,
                   att_bases, attitude_regularisation_factor, degree_error,
                   ret, ncalls>>

ReportError(after) ==
    IF after.err # NoError
    THEN /\ status' = after.err
         /\ pc' = "idle"
         /\ UNCHANGED <<trace, call>>
    ELSE /\ status' = status
         /\ trace' = Append(trace, Event("error_after", after.val))
         /\ call' = [call EXCEPT !.done = @ + 1, !.last_error = after.val]
         /\ pc' = "loop"

(* Line 202: the error after the iteration *)
PassEnd ==
    /\ pc = "pass_end"
    /\ ReportError(error_function(Self))
    /\ UNCHANGED <<scanner, updating, verbose, calc_sources, real_sources, iter_counter,
                   att_coeffs, att_knots, attitude_splines, time_dict, all_obs_times,
                   att_bases, attitude_regularisation_factor, degree_error,
                   self_d, self_c_update, self_N_aa, self_h,
                   ret, ncalls>>

----------------------------------------------------------------------------
(* The other calls *)

Returns(out) ==
    /\ status' = (IF out.err # NoError THEN out.err ELSE "ok")
    /\ ret' = out.val

(* Faulty variant: evaluating the error also counts as an iteration *)
CallErrorFunctionCounting ==
    /\ pc = "idle"
    /\ ncalls < MaxCalls
    /\ ncalls' = ncalls + 1
    /\ call' = [NoCall EXCEPT !.op = "error_function", !.prev = call.op]
    /\ Returns(error_function(Self))
    /\ trace' = <<>>
    /\ iter_counter' = iter_counter + 1
    /\ UNCHANGED <<scanner, updating, verbose, calc_sources, real_sources,
                   att_coeffs, att_knots, attitude_splines, time_dict, all_obs_times,
                   att_bases, attitude_regularisation_factor, degree_error,
                   self_d, self_c_update, self_N_aa, self_h, pc>>

CallErrorFunction ==
    /\ pc = "idle"
    /\ ncalls < MaxCalls
    /\ ncalls' = ncalls + 1
    /\ call' = [NoCall EXCEPT !.op = "error_function", !.prev = call.op]
    /\ Returns(error_function(Self))
    /\ trace' = <<>>
    /\ UNCHANGED <<scanner, updating, verbose, calc_sources, real_sources, iter_counter,
                   att_coeffs, att_knots, attitude_splines, time_dict, all_obs_times,
                   att_bases, attitude_regularisation_factor, degree_error,
                   self_d, self_c_update, self_N_aa, self_h, pc>>

ObservationTimes == {1}

(* compute_R_L called from outside: an index past the source lists is an     *)
(* IndexError once the mode has been recognised                              *)
checked_R_L(self, source_index, t) ==
    IF iterate_branch(self.updating) # "none" /\ source_index > Len(self.calc_sources)
    THEN [err |-> "IndexError", val |-> 0]
    ELSE compute_R_L(self, source_index, t)

CallComputeRL(source_index, t) ==
    /\ pc = "idle"
    /\ ncalls < MaxCalls
    /\ ncalls' = ncalls + 1
    /\ call' = [NoCall EXCEPT !.op = "compute_R_L", !.prev = call.op,
                              !.source_index = source_index, !.t = t]
    /\ Returns(checked_R_L(Self, source_index, t))
    /\ trace' = <<>>
    /\ UNCHANGED <<scanner, updating, verbose, calc_sources, real_sources, iter_counter,
                   att_coeffs, att_knots, attitude_splines, time_dict, all_obs_times,
                   att_bases, attitude_regularisation_factor, degree_error,
                   self_d, self_c_update, self_N_aa, self_h, pc>>

(* Faulty variant: "resetting everything", the current parameters as well *)
reset_iterations_clearing_params(sources) ==
    [i \in 1..Len(sources) |->
        [sources[i] EXCEPT !.s_old = <<>>, !.errors = <<>>, !.s_params = ZeroVec(NParams)]]

(* Faulty variant: only the parameter histories are emptied *)
reset_iterations_keeping_errors(sources) ==
    [i \in 1..Len(sources) |-> [sources[i] EXCEPT !.s_old = <<>>]]

reset_iterations(sources) ==
    [i \in 1..Len(sources) |-> [sources[i] EXCEPT !.s_old = <<>>, !.errors = <<>>]]

(* Faulty variant: the reset also empties the time index *)
CallResetIterationsClearingIndex ==
    /\ pc = "idle"
    /\ ncalls < MaxCalls
    /\ ncalls' = ncalls + 1
    /\ call' = [NoCall EXCEPT !.op = "reset_iterations"]
    /\ iter_counter' = 0
    /\ calc_sources' = reset_iterations(calc_sources)
    /\ time_dict' = <<>>
    /\ status' = "ok"
    /\ ret' = 0
    /\ trace' = <<>>
    /\ UNCHANGED <<scanner, updating, verbose, real_sources,
                   att_coeffs, att_knots, attitude_splines, all_obs_times,
                   att_bases, attitude_regularisation_factor, degree_error,
                   self_d, self_c_update, self_N_aa, self_h, pc>>

CallResetIterations ==
    /\ pc = "idle"
    /\ ncalls < MaxCalls
    /\ ncalls' = ncalls + 1
    /\ call' = [NoCall EXCEPT !.op = "reset_iterations"]
    /\ iter_counter' = 0
    /\ calc_sources' = reset_iterations(calc_sources)
    /\ status' = "ok"
    /\ ret' = 0
    /\ trace' = <<>>
    /\ UNCHANGED <<scanner, updating, verbose, real_sources,
                   att_coeffs, att_knots, attitude_splines, time_dict, all_obs_times,
                   att_bases, attitude_regularisation_factor, degree_error,
                   self_d, self_c_update, self_N_aa, self_h, pc>>

(* Whole-number square root, 0 when x is not a positive perfect square *)
Isqrt(x) == IF \E r \in 1..x : r * r = x THEN CHOOSE r \in 1..x : r * r = x ELSE 0

(* np.linalg.norm(self.att_coeffs[:, i]), 0 when it is not on the integer grid *)
column_norm(coeffs, i) == Isqrt(SumSeq(Vec([c \in 1..4 |-> coeffs[c][i] * coeffs[c][i]])))

(* The columns the integer grid can normalise: whole norm dividing the column *)
Normalisable(coeffs) ==
    \A i \in 1..Len(coeffs[1]) :
       /\ column_norm(coeffs, i) > 0
       /\ \A c \in 1..4 : coeffs[c][i] % column_norm(coeffs, i) = 0

(* self.att_coeffs[:, i] /= np.linalg.norm(self.att_coeffs[:, i]) for every i *)
normalize_coefficients(coeffs) ==
    Mat([c \in 1..4 |-> [i \in 1..Len(coeffs[c]) |-> coeffs[c][i] \div column_norm(coeffs, i)]])

(* The BSpline objects built by actualise_splines hold views of the rows of  *)
(* att_coeffs, so an in-place change of the coefficients shows through them; *)
(* the splines handed to the constructor hold arrays of their own            *)
splines_after_in_place(splines, coeffs, rebuilt) ==
    IF rebuilt THEN actualise_splines(coeffs) ELSE splines

(* normalize_coefficients; call.pass_start keeps the coefficients as they were *)
CallNormalizeCoefficients ==
    /\ pc = "idle"
    /\ ncalls < MaxCalls
    /\ Normalisable(att_coeffs)
    /\ ncalls' = ncalls + 1
    /\ call' = [NoCall EXCEPT !.op = "normalize_coefficients", !.prev = call.op,
                              !.pass_start = att_coeffs]
    /\ att_coeffs' = normalize_coefficients(att_coeffs)
    /\ attitude_splines' = splines_after_in_place(attitude_splines, att_coeffs', self_d # <<>>)
    /\ status' = "ok"
    /\ ret' = 0
    /\ trace' = <<>>
    /\ UNCHANGED <<scanner, updating, verbose, calc_sources, real_sources, iter_counter,
                   att_knots, time_dict, all_obs_times,
                   att_bases, attitude_regularisation_factor, degree_error,
                   self_d, self_c_update, self_N_aa, self_h, pc>>

Next ==
    \/ \E num \in 0..MaxNum : CallIterate(num)
    \/ IterateReturn
    \/ PassBegin
    \/ UpdateSStar
    \/ UpdateABlock
    \/ PassEnd
    \/ CallErrorFunction
    \/ \E source_index \in 1..MaxStars, t \in ObservationTimes : CallComputeRL(source_index, t)
    \/ CallResetIterations
    \/ CallNormalizeCoefficients

Spec == Init /\ [][Next]_vars

----------------------------------------------------------------------------
(* The attitude equations called on their own: the look-up in the time index *)
(* and the assembly methods, on a solver built for the attitude mode with    *)
(* and without regularisation                                                *)

LookupTimes == {0, 3}

CallGetSourceIndex(t) ==
    /\ pc = "idle"
    /\ ncalls < MaxCalls
    /\ ncalls' = ncalls + 1
    /\ call' = [NoCall EXCEPT !.op = "get_source_index", !.prev = call.op, !.t = t]
    /\ Returns(get_source_index(Self, t))
    /\ trace' = <<>>
    /\ UNCHANGED <<scanner, updating, verbose, calc_sources, real_sources, iter_counter,
                   att_coeffs, att_knots, attitude_splines, time_dict, all_obs_times,
                   att_bases, attitude_regularisation_factor, degree_error,
                   self_d, self_c_update, self_N_aa, self_h, pc>>

CallComputeNaa(m_index, n_index) ==
    /\ pc = "idle"
    /\ ncalls < MaxCalls
    /\ ncalls' = ncalls + 1
    /\ call' = [NoCall EXCEPT !.op = "compute_Naa_mn", !.prev = call.op,
                              !.m_index = m_index, !.n_index = n_index]
    /\ status' = "ok"
    /\ ret' = compute_Naa_mn(Self, m_index, n_index)
    /\ trace' = <<>>
    /\ UNCHANGED <<scanner, updating, verbose, calc_sources, real_sources, iter_counter,
                   att_coeffs, att_knots, attitude_splines, time_dict, all_obs_times,
                   att_bases, attitude_regularisation_factor, degree_error,
                   self_d, self_c_update, self_N_aa, self_h, pc>>

(* compute_attitude_LHS: self.N_aa = N_aa; return N_aa *)
StoreLHS(N_aa) ==
    /\ self_N_aa' = N_aa
    /\ ret' = N_aa

CallComputeAttitudeLHS ==
    /\ pc = "idle"
    /\ ncalls < MaxCalls
    /\ ncalls' = ncalls + 1
    /\ call' = [NoCall EXCEPT !.op = "compute_attitude_LHS", !.prev = call.op]
    /\ status' = "ok"
    /\ StoreLHS(compute_attitude_LHS(Self))
    /\ trace' = <<>>
    /\ UNCHANGED <<scanner, updating, verbose, calc_sources, real_sources, iter_counter,
                   att_coeffs, att_knots, attitude_splines, time_dict, all_obs_times,
                   att_bases, attitude_regularisation_factor, degree_error,
                   self_d, self_c_update, self_h, pc>>

(* compute_attitude_RHS: self.h = RHS.copy(); return RHS *)
StoreRHS(RHS) ==
    /\ self_h' = RHS
    /\ ret' = RHS

CallComputeAttitudeRHS ==
    /\ pc = "idle"
    /\ ncalls < MaxCalls
    /\ ncalls' = ncalls + 1
    /\ call' = [NoCall EXCEPT !.op = "compute_attitude_RHS", !.prev = call.op]
    /\ status' = "ok"
    /\ StoreRHS(compute_attitude_RHS(Self))
    /\ trace' = <<>>
    /\ UNCHANGED <<scanner, updating, verbose, calc_sources, real_sources, iter_counter,
                   att_coeffs, att_knots, attitude_splines, time_dict, all_obs_times,
                   att_bases, attitude_regularisation_factor, degree_error,
                   self_d, self_c_update, self_N_aa, pc>>

(* The sources of the attitude scenarios: one observed inside the two knot   *)
(* intervals, one observed on the knots                                      *)
AssemblyKinds ==
    {[obs |-> <<-1, 1>>, pert |-> <<1, 1, 1, 1, 1>>],
     [obs |-> <<-2, 0, 2>>, pert |-> <<1, 1, 1, 1, 1>>]}

(* Up to MaxStars sources of different kinds, so no time has two owners *)
AssemblyScenarios ==
    {s \in UNION {[1..n -> AssemblyKinds] : n \in 0..MaxStars} :
        \A i, j \in DOMAIN s : i # j => s[i] # s[j]}

RegularisationFactors == {0, 1}

AssemblyInit ==
    /\ scanner = NewScanner
    /\ updating = "attitude"
    /\ verbose = FALSE
    /\ attitude_regularisation_factor \in RegularisationFactors
    /\ degree_error = 0
    /\ self_d = <<>>
    /\ self_c_update = <<>>
    /\ self_N_aa = <<>>
    /\ self_h = <<>>
    /\ \E kind \in AssemblyScenarios :
         /\ real_sources = [i \in DOMAIN kind |-> RealSource(i)]
         /\ calc_sources = [i \in DOMAIN kind |->
                Calc_source(kind[i].obs, VecAdd(RealSource(i).params, kind[i].pert),
                            RealSource(i).mean_color)]
    /\ iter_counter = 0
    /\ time_dict = BuildTimeDict(calc_sources, 1, <<>>)
    /\ all_obs_times = SortedObsTimes(calc_sources)
    /\ att_knots = ScenarioKnots
    /\ att_coeffs \in AttitudeGuesses
    /\ attitude_splines = actualise_splines(att_coeffs)
    /\ att_bases = get_basis_Bsplines(att_knots, att_coeffs[1], all_obs_times)
    /\ pc = "idle"
    /\ call = NoCall
    /\ status = "ok"
    /\ ret = 0
    /\ trace = <<>>
    /\ ncalls = 0

AssemblyNext ==
    \/ \E t \in LookupTimes : CallGetSourceIndex(t)
    \/ \E m_index, n_index \in 1..(Len(ScenarioKnots) - M) : CallComputeNaa(m_index, n_index)
    \/ CallComputeAttitudeLHS
    \/ CallComputeAttitudeRHS
    \/ CallNormalizeCoefficients

AssemblySpec == AssemblyInit /\ [][AssemblyNext]_vars

----------------------------------------------------------------------------
(* The operations of a Scanner called on their own, on one Scanner object,   *)
(* up to MaxScans calls; the solver is left as constructed                   *)

ScannerReturns(op, out) ==
    /\ ncalls < MaxScans
    /\ ncalls' = ncalls + 1
    /\ call' = [NoCall EXCEPT !.op = op, !.prev = call.op]
    /\ scanner' = out.sc
    /\ status' = (IF out.err = NoError THEN "ok" ELSE out.err)
    /\ UNCHANGED <<updating, verbose, calc_sources, real_sources, iter_counter,
                   att_coeffs, att_knots, attitude_splines, time_dict, all_obs_times,
                   att_bases, attitude_regularisation_factor, degree_error,
                   self_d, self_c_update, self_N_aa, self_h, pc, ret, trace>>

CallResetMemory ==
    /\ pc = "idle"
    /\ ScannerReturns("reset_memory", [err |-> NoError, sc |-> reset_memory(scanner)])

(* start: wide_scan(sat, source, ti, tf), nothing else *)
CallStart(sky, ti) ==
    /\ pc = "idle"
    /\ ScannerReturns("start", [err |-> NoError, sc |-> wide_scan(scanner, sky, ti, ScanEnd)])

CallWideScanBis(sky, ti) ==
    /\ pc = "idle"
    /\ ScannerReturns("wide_scan_bis",
                      [err |-> NoError, sc |-> wide_scan_bis(scanner, sky, ti, ScanEnd)])

CallCoarseScan(sky) ==
    /\ pc = "idle"
    /\ ScannerReturns("coarse_scan", [err |-> NoError, sc |-> coarse_scan(scanner, sky)])

CallFineScan ==
    /\ pc = "idle"
    /\ ScannerReturns("fine_scan", fine_scan(scanner))

ScannerInit ==
    /\ scanner = NewScanner
    /\ updating = "source"
    /\ verbose = FALSE
    /\ attitude_regularisation_factor = 0
    /\ degree_error = 0
    /\ self_d = <<>>
    /\ self_c_update = <<>>
    /\ self_N_aa = <<>>
    /\ self_h = <<>>
    /\ real_sources = <<>>
    /\ calc_sources = <<>>
    /\ iter_counter = 0
    /\ time_dict = <<>>
    /\ all_obs_times = <<>>
    /\ att_knots = ScenarioKnots
    /\ att_coeffs = TruthCoeffs
    /\ attitude_splines = actualise_splines(att_coeffs)
    /\ att_bases = get_basis_Bsplines(att_knots, att_coeffs[1], all_obs_times)
    /\ pc = "idle"
    /\ call = NoCall
    /\ status = "ok"
    /\ ret = 0
    /\ trace = <<>>
    /\ ncalls = 0

ScannerNext ==
    \/ CallResetMemory
    \/ \E sky \in Skies, ti \in ScanStarts : CallStart(sky, ti)
    \/ \E sky \in Skies, ti \in ScanStarts : CallWideScanBis(sky, ti)
    \/ \E sky \in Skies : CallCoarseScan(sky)
    \/ CallFineScan

ScannerSpec == ScannerInit /\ [][ScannerNext]_vars

----------------------------------------------------------------------------
(* The angle pipeline called on its own, on solvers built for the two source *)
(* modes with and without a degree_error and with coloured sources           *)

DegreeErrors == {0, 1}

Colours == {0, 1}

(* Observation lists of the colour scenarios: one whose entries equal their  *)
(* positions counted from 0, one whose entries do not                        *)
ColourObsTimes == {<<0, 1>>, <<-1, 1>>}

(* dR_ds called from outside *)
CallDRds(source_index) ==
    /\ pc = "idle"
    /\ ncalls < MaxCalls
    /\ source_index <= Len(calc_sources)
    /\ ncalls' = ncalls + 1
    /\ call' = [NoCall EXCEPT !.op = "dR_ds", !.prev = call.op, !.source_index = source_index]
    /\ Returns(dR_ds(Self, source_index))
    /\ trace' = <<>>
    /\ UNCHANGED <<scanner, updating, verbose, calc_sources, real_sources, iter_counter,
                   att_coeffs, att_knots, attitude_splines, time_dict, all_obs_times,
                   att_bases, attitude_regularisation_factor, degree_error,
                   self_d, self_c_update, self_N_aa, self_h, pc>>

ColourInit ==
    /\ scanner = NewScanner
    /\ updating \in {"source", "scanned source"}
    /\ verbose = FALSE
    /\ attitude_regularisation_factor = 0
    /\ degree_error \in DegreeErrors
    /\ self_d = <<>>
    /\ self_c_update = <<>>
    /\ self_N_aa = <<>>
    /\ self_h = <<>>
    /\ \E n \in 0..MaxStars :
         /\ \E color \in [1..n -> Colours] :
              real_sources = [i \in 1..n |-> [RealSource(i) EXCEPT !.mean_color = color[i]]]
         /\ \E obs \in [1..n -> ColourObsTimes], mean_color \in [1..n -> Colours] :
              calc_sources = [i \in 1..n |->
                  Calc_source(obs[i], VecAdd(RealSource(i).params, <<1, 1, 1, 1, 1>>),
                              mean_color[i])]
    /\ iter_counter = 0
    /\ time_dict = BuildTimeDict(calc_sources, 1, <<>>)
    /\ all_obs_times = SortedObsTimes(calc_sources)
    /\ att_knots = ScenarioKnots
    /\ att_coeffs = TruthCoeffs
    /\ attitude_splines = actualise_splines(att_coeffs)
    /\ att_bases = get_basis_Bsplines(att_knots, att_coeffs[1], all_obs_times)
    /\ pc = "idle"
    /\ call = NoCall
    /\ status = "ok"
    /\ ret = 0
    /\ trace = <<>>
    /\ ncalls = 0

ColourNext ==
    \/ CallErrorFunction
    \/ \E source_index \in 1..MaxStars, t \in ObservationTimes : CallComputeRL(source_index, t)
    \/ \E source_index \in 1..MaxStars : CallDRds(source_index)

ColourSpec == ColourInit /\ [][ColourNext]_vars

----------------------------------------------------------------------------
(* Properties of the solver *)

SourceModes == {"source", "scanned source"}

RecognisedModes == {"source", "scanned source", "attitude"}

(* The solver's own fields: everything but the bookkeeping of the call *)
SolverState == <<updating, verbose, calc_sources, real_sources, iter_counter,
                 att_coeffs, att_knots, attitude_splines, time_dict, all_obs_times,
                 att_bases, attitude_regularisation_factor, degree_error,
                 self_d, self_c_update, self_N_aa, self_h>>

(* How often the running / last call entered the given step *)
CountEvents(ev) == Cardinality({k \in 1..Len(trace) : trace[k].ev = ev})

(* C1: in a recognised mode, a call iterate(n) that returns without error    *)
(* has made exactly n passes: iter_counter has grown by n, the block update  *)
(* of the mode has run n times, whatever errors the passes reported, and     *)
(* iterate(0) has begun no pass.                                             *)
C1_IterateRunsNPasses ==
    (pc = "idle" /\ call.op = "iterate" /\ status = "ok" /\ updating \in RecognisedModes)
    => /\ iter_counter = call.start + call.num
       /\ call.done = call.num
       /\ CountEvents(IF updating = "attitude" THEN "update_A_block"
                      ELSE "update_S_block") = call.num
       /\ CountEvents("error_after") = call.num
       /\ call.num = 0 => trace = <<>> /\ call.pass_start = <<>>

(* A call of two passes has returned although its first pass reported error 0 *)
C1_Witness ==
    /\ pc = "idle" /\ call.op = "iterate" /\ status = "ok"
    /\ updating \in RecognisedModes
    /\ call.num = 2 /\ iter_counter = call.start + 2
    /\ \E k \in 1..(Len(trace) - 1) : trace[k].ev = "error_after" /\ trace[k].arg = 0

(* C2: no step changes the mode; a step of iterate in a source mode leaves   *)
(* the attitude coefficients, knots and splines as they are, and a step of   *)
(* iterate in the attitude mode leaves every calculated source (parameters   *)
(* and histories) as it is.                                                  *)
C2_ModeFixedAndFrame ==
    [][/\ updating' = updating
       /\ ((pc # "idle" \/ pc' # "idle") /\ updating \in SourceModes)
          => UNCHANGED <<att_coeffs, att_knots, attitude_splines,
                         self_d, self_c_update, self_N_aa, self_h>>
       /\ ((pc # "idle" \/ pc' # "idle") /\ updating = "attitude")
          => calc_sources' = calc_sources]_vars

(* An attitude call has returned with coefficients no initial guess has *)
C2_Witness ==
    /\ pc = "idle" /\ call.op = "iterate" /\ status = "ok"
    /\ updating = "attitude"
    /\ att_coeffs \notin AttitudeGuesses
    /\ Len(calc_sources) = MaxStars

(* C3: with an unrecognised mode, iterate(n), n >= 1, ends in the            *)
(* configuration error with iter_counter, parameters and histories as they   *)
(* were at the call, also when no source has an observation, and compute_R_L *)
(* ends in the configuration error.                                          *)
C3_UnknownModeFailsFirst ==
    (updating \notin RecognisedModes)
    => /\ (call.op = "iterate" /\ call.num >= 1)
          => /\ iter_counter = call.start
             /\ pc = "idle" => status = "ValueError"
       /\ call.op = "compute_R_L" => status = "ValueError"

(* C4: a call of error_function or compute_R_L leaves every field of the     *)
(* solver as it was, and error_function called right after error_function   *)
(* returns the same value.                                                   *)
C4_PureReads ==
    [][(ncalls' = ncalls + 1 /\ call'.op \in {"error_function", "compute_R_L"})
       => /\ UNCHANGED SolverState
          /\ (call.op = "error_function" /\ call'.op = "error_function")
             => ret' = ret /\ status' = status]_vars

(* error_function has been called twice in a row and returned a positive error *)
C4_Witness ==
    /\ call.op = "error_function" /\ call.prev = "error_function"
    /\ status = "ok" /\ ret > 0

(* The squared residuals of source i, one per entry of its observation list *)
SquaredResiduals(i) ==
    Vec([j \in 1..Len(calc_sources[i].obs_times) |->
            compute_R_L(Self, i, calc_sources[i].obs_times[j]).val
            * compute_R_L(Self, i, calc_sources[i].obs_times[j]).val])

(* C5: the value error_function returns is the sum over the sources and over *)
(* the entries of each source's observation list (a repeated time counted as *)
(* often as it occurs) of the squared residual; it is 0 when no source has   *)
(* an observation and is never negative.                                     *)
C5_ErrorIsSumOfSquares ==
    (pc = "idle" /\ call.op = "error_function" /\ status = "ok")
    => /\ ret = SumSeq(Vec([i \in 1..Len(calc_sources) |-> SumSeq(SquaredResiduals(i))]))
       /\ ret >= 0
       /\ (\A i \in 1..Len(calc_sources) : calc_sources[i].obs_times = <<>>) => ret = 0

(* error_function has returned a positive error for one source observed      *)
(* twice at the same time                                                    *)
C5_Witness ==
    /\ pc = "idle" /\ call.op = "error_function" /\ status = "ok"
    /\ Len(calc_sources) = 1
    /\ calc_sources[1].obs_times = <<0, 0>>
    /\ ret > 0 /\ ret = 2 * SquaredResiduals(1)[1]

(* The attitude behind the observed angles of (source i, time t), by mode *)
ObservedSideAttitude(i, t) ==
    IF updating = "source" THEN attitude_from_alpha_delta(real_sources[i], t, 0)
    ELSE func_attitude(t)

(* The attitude behind the calculated angles of (source i, time t), by mode *)
CalculatedSideAttitude(i, t) ==
    IF updating = "source" THEN attitude_from_alpha_delta(real_sources[i], t, 0)
    ELSE IF updating = "scanned source" THEN func_attitude(t)
    ELSE Unit(ScaledQuaternion(
                  <<SplineValue(att_knots, attitude_splines[1], t),
                    SplineValue(att_knots, attitude_splines[2], t),
                    SplineValue(att_knots, attitude_splines[3], t),
                    SplineValue(att_knots, attitude_splines[4], t)>>,
                  KnotLength(att_knots)))

(* C6: the residual compute_R_L returns for (source i, time t) is            *)
(* (eta_obs - eta_calc) + (zeta_obs - zeta_calc); in the attitude mode the   *)
(* calculated side is seen through the spline attitude and the observed side *)
(* through the ground-truth attitude, in the source mode both through the    *)
(* one attitude derived from reference source i, in the scanned-source mode  *)
(* both through the ground-truth attitude at t.                              *)
C6_ResidualByMode ==
    (pc = "idle" /\ call.op = "compute_R_L" /\ status = "ok")
    => ret = (observed_field_angles(real_sources[call.source_index],
                                    ObservedSideAttitude(call.source_index, call.t),
                                    call.t).eta
              - calculated_field_angles(calc_sources[call.source_index],
                                        CalculatedSideAttitude(call.source_index, call.t),
                                        call.t).eta)
             + (observed_field_angles(real_sources[call.source_index],
                                      ObservedSideAttitude(call.source_index, call.t),
                                      call.t).zeta
                - calculated_field_angles(calc_sources[call.source_index],
                                          CalculatedSideAttitude(call.source_index, call.t),
                                          call.t).zeta)

(* A residual returned in the attitude mode while the spline attitude is not *)
(* the ground truth and the calculated source is the reference source: the   *)
(* residual is non-zero only because the two sides use different attitudes   *)
C6_Witness ==
    /\ pc = "idle" /\ call.op = "compute_R_L" /\ status = "ok"
    /\ updating = "attitude"
    /\ att_coeffs = IdentityCoeffs
    /\ calc_sources[call.source_index].s_params = real_sources[call.source_index].params
    /\ ret # 0

(* A pass of the running call has gone through to its end *)
PassCompleted == call.op = "iterate" /\ pc = "loop" /\ call.done > 0

SelfWithIncrement(j, d) == [Self EXCEPT !.calc_sources = apply_increment(calc_sources, j, d)]

(* C8: in a source mode, the step that updates source i leaves the parameter *)
(* vector of every other source as it is, and the increments the solver can  *)
(* find for a source are the same before and after any other source has      *)
(* been updated: the parameters after a pass do not depend on the order of   *)
(* the per-source updates.                                                   *)
C8_StarsIndependent ==
    /\ []((pc = "S_block" /\ updating \in SourceModes)
          => \A i, j \in 1..Len(calc_sources) :
               i # j => \A out \in block_S_increments(Self, j) :
                          out.err = NoError
                          => block_S_increments(SelfWithIncrement(j, out.d), i)
                                 = block_S_increments(Self, i))
    /\ [][pc = "S_block"
          => \A j \in 1..Len(calc_sources) :
               j # call.star => calc_sources'[j].s_params = calc_sources[j].s_params]_vars

(* A source-mode pass has updated two sources that both started off the      *)
(* reference parameters, each by a non-zero increment                        *)
C8_Witness ==
    /\ pc = "pass_end" /\ updating \in SourceModes
    /\ Len(calc_sources) = 2 /\ Len(call.increments) = 2
    /\ call.increments[1] # ZeroVec(NParams) /\ call.increments[2] # ZeroVec(NParams)
    /\ \A i \in 1..2 : calc_sources[i].s_params
                           = VecAdd(call.pass_start[i].s_params, call.increments[i])

(* The normal matrix A^T W A that update_block_S_i builds for source i *)
NormalMatrixOf(i) == NormalMatrix(block_S_error_rate_matrix(Self, i).val, NParams)

(* C9 as stated: whenever the normal matrix of the source being updated is   *)
(* singular, the update ends in the singular-matrix error and the source's   *)
(* parameter vector stays as it was.                                         *)
C9_SingularAlwaysFails ==
    [][(pc = "S_block" /\ IsSingular(NormalMatrixOf(call.star)))
       => /\ status' = "LinAlgError"
          /\ calc_sources'[call.star].s_params = calc_sources[call.star].s_params]_vars

(* C10: when the solve for source i fails inside iterate, the call is over   *)
(* with that error: the sources before i carry the increments this pass      *)
(* applied to them, source i and the sources after it have the parameters    *)
(* they had when the pass began, and no further pass has been counted.       *)
C10_FailureAborts ==
    (call.op = "iterate" /\ status = "LinAlgError" /\ updating \in SourceModes)
    => /\ pc = "idle"
       /\ iter_counter = call.start + call.done + 1
       /\ Len(call.increments) = call.star - 1
       /\ \A j \in 1..Len(calc_sources) :
            calc_sources[j].s_params
                = IF j < call.star
                  THEN VecAdd(call.pass_start[j].s_params, call.increments[j])
                  ELSE call.pass_start[j].s_params

(* The solve has failed for the second source after the first was moved *)
C10_Witness ==
    /\ call.op = "iterate" /\ status = "LinAlgError" /\ updating \in SourceModes
    /\ pc = "idle" /\ call.star = 2 /\ call.num = 2
    /\ call.increments[1] # ZeroVec(NParams)
    /\ calc_sources[1].s_params # call.pass_start[1].s_params

(* C11 as stated: for every calculated source i and every time t of its      *)
(* observation list, get_source_index(t) returns i, also when two sources    *)
(* were observed at the same time.                                           *)
C11_IndexOwnsEveryTime ==
    \A i \in 1..Len(calc_sources) :
      \A j \in 1..Len(calc_sources[i].obs_times) :
        /\ get_source_index(Self, calc_sources[i].obs_times[j]).err = NoError
        /\ get_source_index(Self, calc_sources[i].obs_times[j]).val = i

(* The times some source's observation list holds *)
ObservedTimes ==
    UNION {{calc_sources[i].obs_times[j] : j \in 1..Len(calc_sources[i].obs_times)} :
              i \in 1..Len(calc_sources)}

(* C12: the keys of the time index are the observed times; a call of         *)
(* get_source_index leaves every field of the solver as it was, returns the  *)
(* index stored for t exactly when t is a key, and otherwise ends in the     *)
(* look-up error (ValueError).                                               *)
C12_LookupFailsOffIndex ==
    [][(ncalls' = ncalls + 1 /\ call'.op = "get_source_index")
       => /\ UNCHANGED SolverState
          /\ DOMAIN time_dict = ObservedTimes
          /\ (call'.t \in DOMAIN time_dict)
             => status' = "ok" /\ ret' = time_dict[call'.t]
          /\ (call'.t \notin DOMAIN time_dict)
             => status' = "ValueError"]_vars

(* The look-up of a time no source was observed at has failed on a solver    *)
(* that has observations                                                     *)
C12_Witness ==
    /\ call.op = "get_source_index" /\ status = "ValueError"
    /\ call.t \notin ObservedTimes
    /\ ObservedTimes # {}

(* How often the time t occurs in the sequence s *)
Occurrences(s, t) == Cardinality({j \in 1..Len(s) : s[j] = t})

(* C13: the merged time sequence is ascending and holds every observation   *)
(* time of every source as often as the sources list it, and no step of     *)
(* iterate, error_function, normalize_coefficients or reset_iterations      *)
(* changes the time index, the merged time sequence, the knots or the table *)
(* of basis values.                                                         *)
C13_SetupStructuresReadOnly ==
    /\ [](/\ \A j \in 1..(Len(all_obs_times) - 1) : all_obs_times[j] <= all_obs_times[j + 1]
          /\ \A t \in ObservedTimes \cup {all_obs_times[j] : j \in 1..Len(all_obs_times)} :
               Occurrences(all_obs_times, t)
                   = SumSeq(Vec([i \in 1..Len(calc_sources) |->
                                    Occurrences(calc_sources[i].obs_times, t)])))
    /\ [][UNCHANGED <<time_dict, all_obs_times, att_knots, att_bases>>]_vars

(* normalize_coefficients has changed the coefficients after an iterate call *)
(* that began a pass, on a solver that has observations                      *)
C13_Witness ==
    /\ pc = "idle" /\ call.op = "normalize_coefficients" /\ call.prev = "iterate"
    /\ iter_counter > 0
    /\ call.pass_start # att_coeffs
    /\ Len(all_obs_times) > 0 /\ DOMAIN time_dict # {}

(* C14: no step of iterate (in any mode), error_function, reset_iterations   *)
(* or any other call changes a reference source; the step that adds the      *)
(* increment to calculated source i moves that source's parameters and       *)
(* leaves reference source i as it was, also when the calculated source was  *)
(* built from the reference source.                                          *)
C14_ReferenceSourcesUntouched ==
    [][/\ real_sources' = real_sources
       /\ (pc = "S_block" /\ pc' # "idle")
          => calc_sources'[call.star].s_params
                 = VecAdd(calc_sources[call.star].s_params,
                          call'.increments[Len(call'.increments)])]_vars

(* A pass has updated two sources: one built from its reference source (the  *)
(* solve left it there) and one moved by a non-zero increment, now different *)
(* from its reference source                                                 *)
C14_Witness ==
    /\ call.op = "iterate" /\ updating \in SourceModes
    /\ Len(calc_sources) = 2 /\ Len(call.increments) = 2
    /\ \E i, j \in 1..2 :
         /\ call.pass_start[i].s_params = real_sources[i].params
         /\ calc_sources[i].s_params = real_sources[i].params
         /\ call.increments[j] # ZeroVec(NParams)
         /\ calc_sources[j].s_params # call.pass_start[j].s_params
         /\ calc_sources[j].s_params # real_sources[j].params

(* The time t lies in the support of the basis function of span n *)
InSupport(n, t) == att_knots[n] <= t /\ t <= att_knots[n + M]

(* The terms of every entry of the merged time sequence, in its order *)
TermsOfAllTimes == Vec([j \in 1..Len(all_obs_times) |-> AttitudeTerms(Self, all_obs_times[j])])

(* Entry (a, b) of (dR/da_n)(dR/da_m)^T + lambda2 (dD/da_n)(dD/da_m)^T at one time *)
BlockEntryAt(T, m, n, a, b, lambda2) ==
    dR_da_i(T.dR_dq, att_bases[n][T.obs_time_index])[a]
        * dR_da_i(T.dR_dq, att_bases[m][T.obs_time_index])[b]
    + lambda2 * compute_DL_da_i(T.coeff_basis_sum, att_bases, T.obs_time_index, n)[a]
              * compute_DL_da_i(T.coeff_basis_sum, att_bases, T.obs_time_index, m)[b]

(* The block of spans (m, n) summed entry by entry over the times of both supports *)
BlockOverCommonTimes(terms, m, n, lambda2) ==
    Mat([a \in 1..4 |-> [b \in 1..4 |->
        SumSeq(Vec([j \in 1..Len(all_obs_times) |->
            IF InSupport(m, all_obs_times[j]) /\ InSupport(n, all_obs_times[j])
            THEN BlockEntryAt(terms[j], m, n, a, b, lambda2)
            ELSE 0]))]])

(* C15: the block compute_Naa_mn returns for the spans (m, n) is the sum,    *)
(* over the observation times in both spans' supports, of                    *)
(* (dR/da_n)(dR/da_m)^T + lambda^2 (dD/da_n)(dD/da_m)^T; it is all zeros     *)
(* when no observation time lies in both supports, and with lambda = 0 it is *)
(* the sum of the residual-gradient products alone.                          *)
C15_BlockIsSumOverCommonTimes ==
    (pc = "idle" /\ call.op = "compute_Naa_mn")
    => /\ ret = BlockOverCommonTimes(TermsOfAllTimes, call.m_index, call.n_index,
                                     attitude_regularisation_factor
                                         * attitude_regularisation_factor)
       /\ (\A j \in 1..Len(all_obs_times) :
              ~(InSupport(call.m_index, all_obs_times[j])
                /\ InSupport(call.n_index, all_obs_times[j])))
          => ret = ZeroMatrix(4)
       /\ attitude_regularisation_factor = 0
          => ret = BlockOverCommonTimes(TermsOfAllTimes, call.m_index, call.n_index, 0)

(* A regularised block of two different spans that share an observation time *)
(* has come out with a non-zero entry the residual gradients alone do not    *)
(* give                                                                      *)
C15_Witness ==
    /\ pc = "idle" /\ call.op = "compute_Naa_mn"
    /\ call.m_index # call.n_index
    /\ attitude_regularisation_factor = 1
    /\ Len(calc_sources) = 2
    /\ ret # ZeroMatrix(4)
    /\ ret # BlockOverCommonTimes(TermsOfAllTimes, call.m_index, call.n_index, 0)

(* x^T N x *)
QuadraticForm(N, x) == Dot(x, Vec([r \in 1..Len(N) |-> Dot(N[r], x)]))

(* The vectors with entries -1, 0, 1 and one or two non-zero entries *)
TestVectors(n) ==
    {Vec([k \in 1..n |-> IF k = i THEN s1 ELSE IF k = j THEN s2 ELSE 0]) :
        i \in 1..n, j \in 1..n, s1 \in {-1, 1}, s2 \in {-1, 1}}

(* The 4x4 block of N at row-span n, column-span m *)
BlockOf(N, n, m) ==
    Mat([a \in 1..4 |-> [b \in 1..4 |-> N[4 * (n - 1) + a][4 * (m - 1) + b]]])

Transposed(B) == Mat([a \in 1..Len(B) |-> [b \in 1..Len(B) |-> B[b][a]]])

ResidualPartAt(T, n, c) == dR_da_i(T.dR_dq, att_bases[n][T.obs_time_index])[c] * T.R_L

(* Component c of lambda^2 (dD/da_n) D at one time *)
RegularisationPartAt(T, n, c) ==
    attitude_regularisation_factor * attitude_regularisation_factor
        * compute_DL_da_i(T.coeff_basis_sum, att_bases, T.obs_time_index, n)[c] * T.D_L

(* Sum of part(j) over the entries of the merged time sequence in span n's support *)
SumOverSupport(n, part(_)) ==
    SumSeq(Vec([j \in 1..Len(all_obs_times) |->
                   IF InSupport(n, all_obs_times[j]) THEN part(j) ELSE 0]))

ResidualSum(terms, n, c) == SumOverSupport(n, LAMBDA j : ResidualPartAt(terms[j], n, c))

RegularisationSum(terms, n, c) ==
    SumOverSupport(n, LAMBDA j : RegularisationPartAt(terms[j], n, c))

RHSReturned == pc = "idle" /\ call.op = "compute_attitude_RHS"

(* C17 as stated: block n of the right-hand side is the negated sum over     *)
(* span n's support of (dR/da_n) R minus lambda^2 (dD/da_n) D.               *)
C17_RegularisationOppositeSign ==
    RHSReturned =>
        \A n \in 1..(Len(ret) \div 4) : \A c \in 1..4 :
            ret[4 * (n - 1) + c]
                = 0 - (ResidualSum(TermsOfAllTimes, n, c)
                        - RegularisationSum(TermsOfAllTimes, n, c))

(* C17 amended: block n of the right-hand side is the negated sum over span  *)
(* n's support of (dR/da_n) R plus lambda^2 (dD/da_n) D: the regularisation  *)
(* term enters the accumulated sum with the same sign as the residual term.  *)
C17_RegularisationSameSign ==
    RHSReturned =>
        \A n \in 1..(Len(ret) \div 4) : \A c \in 1..4 :
            ret[4 * (n - 1) + c]
                = 0 - (ResidualSum(TermsOfAllTimes, n, c)
                        + RegularisationSum(TermsOfAllTimes, n, c))

(* A right-hand side has been returned in which both the residual sum and    *)
(* the regularisation sum of one component are non-zero                      *)
C17_Witness ==
    /\ RHSReturned
    /\ attitude_regularisation_factor = 1
    /\ \E n \in 1..(Len(ret) \div 4) : \E c \in 1..4 :
          /\ ResidualSum(TermsOfAllTimes, n, c) # 0
          /\ RegularisationSum(TermsOfAllTimes, n, c) # 0

(* A step in which update_A_block solved its system and applied the result *)
ABlockSucceeded == pc = "A_block" /\ pc' = "pass_end"

(* C18: after a successful update_A_block every att_coeffs[c][i] is its      *)
(* value before the call plus element 4*i + c of the solution d (unknowns    *)
(* ordered span by span, four components each), and the four splines are     *)
(* rebuilt from the updated coefficient rows.                                *)
C18_SolutionAddedSpanBySpan ==
    [][ABlockSucceeded =>
          /\ \A c \in 1..4 : \A i \in 1..Len(att_coeffs[1]) :
                att_coeffs'[c][i] = att_coeffs[c][i] + call'.increments[1][4 * (i - 1) + c]
          /\ attitude_splines' = actualise_splines(att_coeffs')]_vars

ErrorEvents == SelectSeq(trace, LAMBDA e : e.ev \in {"error_before", "error_after"})

(* Positions of the trace holding a report of the error *)
ErrorPositions == {k \in 1..Len(trace) : trace[k].ev \in {"error_before", "error_after"}}

(* iterate is between two passes or has returned: every pass begun is complete *)
BetweenPasses == call.op = "iterate" /\ (pc = "loop" \/ (pc = "idle" /\ status = "ok"))

(* C19 as stated: in every pass, for every mode and every verbosity setting, *)
(* the error is evaluated and reported once before the block update and once *)
(* after it.                                                                 *)
C19_ErrorBeforeAndAfterAlways ==
    BetweenPasses =>
        /\ CountEvents("error_before") = call.done
        /\ CountEvents("error_after") = call.done

(* C19 amended: in every completed pass, for every mode, the error is        *)
(* evaluated and reported once after the block update, and once before it    *)
(* exactly when verbose is set; the block update lies between the two        *)
(* reports, and nothing changes the error between one pass's report after    *)
(* and the next pass's report before.                                        *)
C19_ErrorAfterAlwaysBeforeWhenVerbose ==
    BetweenPasses =>
        /\ CountEvents("error_after") = call.done
        /\ CountEvents("error_before") = (IF verbose THEN call.done ELSE 0)
        /\ \A k \in 1..Len(ErrorEvents) :
              /\ ErrorEvents[k].ev = (IF verbose /\ k % 2 = 1 THEN "error_before"
                                      ELSE "error_after")
              /\ (verbose /\ k % 2 = 1 /\ k > 1) => ErrorEvents[k].arg = ErrorEvents[k - 1].arg
        /\ \A k \in (1..Len(trace)) \ ErrorPositions :
              /\ \E q \in ErrorPositions :
                    /\ q > k /\ trace[q].ev = "error_after"
                    /\ \A p \in ErrorPositions : p > k => p >= q
              /\ verbose => \E q \in ErrorPositions :
                    /\ q < k /\ trace[q].ev = "error_before"
                    /\ \A p \in ErrorPositions : p < k => p <= q

(* A call of two passes in a recognised mode has returned with verbose off:  *)
(* two reports after, block updates in between, no report before             *)
C19_Witness ==
    /\ pc = "idle" /\ call.op = "iterate" /\ status = "ok"
    /\ ~verbose /\ call.done = 2
    /\ updating \in RecognisedModes
    /\ CountEvents("error_after") = 2 /\ CountEvents("error_before") = 0
    /\ \E k \in 1..Len(trace) : trace[k].ev \in {"update_A_block", "update_block_S_i"}

(* The (n, m) pairs of LoopOrder taken from the last to the first *)
ReversedOrder(N_aa_dim) ==
    Vec([k \in 1..(N_aa_dim * N_aa_dim) |-> LoopOrder(N_aa_dim)[N_aa_dim * N_aa_dim + 1 - k]])

(* The (n, m) pairs with m in the outer loop and n in the inner one *)
ColumnOrder(N_aa_dim) ==
    Vec([k \in 1..(N_aa_dim * N_aa_dim) |->
            <<((k - 1) % N_aa_dim) + 1, ((k - 1) \div N_aa_dim) + 1>>])

(* The pairs whose block covers the cell (r, c) *)
WritersOf(r, c, N_aa_dim) ==
    {p \in (1..N_aa_dim) \X (1..N_aa_dim) : <<r, c>> \in block_cells(p[1], p[2])}

LHSCallStep == call'.op = "compute_attitude_LHS" /\ ncalls' = ncalls + 1

(* C20: compute_attitude_LHS assigns every 4x4 block of the 4N x 4N matrix   *)
(* exactly once (every cell lies in the block of exactly one (n, m) pair and *)
(* ends up holding that pair's compute_Naa_mn value), the call writes no     *)
(* coefficients, splines or sources, and the matrix is the same whatever the *)
(* order in which the pairs are processed.                                   *)
C20_AssemblySingleWriter ==
    [][LHSCallStep =>
          /\ Len(ret') = 4 * Len(att_coeffs[1])
          /\ \A r, c \in 1..Len(ret') :
                Cardinality(WritersOf(r, c, Len(att_coeffs[1]))) = 1
          /\ \A n, m \in 1..Len(att_coeffs[1]) :
                BlockOf(ret', n, m) = compute_Naa_mn(Self, m, n)
          /\ ret' = AssembleBlocks(Self, ReversedOrder(Len(att_coeffs[1])),
                                   ZeroMatrix(4 * Len(att_coeffs[1])))
          /\ ret' = AssembleBlocks(Self, ColumnOrder(Len(att_coeffs[1])),
                                   ZeroMatrix(4 * Len(att_coeffs[1])))
          /\ self_N_aa' = ret'
          /\ UNCHANGED <<att_coeffs, attitude_splines, att_bases, att_knots,
                         calc_sources, real_sources, time_dict, all_obs_times>>]_vars

(* The matrix of two sources has been assembled with two different non-zero  *)
(* blocks in neighbouring positions                                          *)
C20_Witness ==
    /\ pc = "idle" /\ call.op = "compute_attitude_LHS"
    /\ Len(calc_sources) = 2
    /\ \E n, m \in 1..((Len(ret) \div 4) - 1) :
          /\ BlockOf(ret, n, m) # ZeroMatrix(4)
          /\ BlockOf(ret, n, m + 1) # ZeroMatrix(4)
          /\ BlockOf(ret, n, m) # BlockOf(ret, n, m + 1)

(* C21: after any sequence of scanner operations, a second scan without      *)
(* reset_memory included, the observation-time list of the Scanner is        *)
(* strictly ascending (so without duplicates), and reset_memory leaves       *)
(* every result list empty.                                                  *)
C21_ObsTimesAscendingUnique ==
    /\ \A i, j \in DOMAIN scanner.obs_times :
          i < j => scanner.obs_times[i] < scanner.obs_times[j]
    /\ call.op = "reset_memory"
       => /\ scanner.times_wide_scan = <<>> /\ scanner.times_coarse_scan = <<>>
          /\ scanner.times_optimize = <<>> /\ scanner.optimize_roots = <<>>
          /\ scanner.roots = <<>> /\ scanner.obs_times = <<>>

(* The field angles of source i calculated at its j-th observation time,     *)
(* through the attitude the Jacobian uses at that time                       *)
AnglesAtObservationTime(i, j) ==
    ColorDeviated(
        calculated_field_angles(calc_sources[i], JacobianAttitudes(Self, i)[j].attitude,
                                calc_sources[i].obs_times[j]),
        calc_sources[i].mean_color, degree_error)

(* C23: in the source-block Jacobian, row j of source i is evaluated at the  *)
(* source's j-th observation time: the calculated field angles that give m,  *)
(* n and 1/cos(zeta) of the row are those at obs_times[j], seen through the  *)
(* attitude at obs_times[j].                                                 *)
C23_JacobianRowsAtObservationTimes ==
    (updating \in SourceModes)
    => \A i \in 1..Len(calc_sources) : \A j \in 1..Len(calc_sources[i].obs_times) :
          dR_ds_angles(Self, i, j, JacobianAttitudes(Self, i)[j].attitude)
              = AnglesAtObservationTime(i, j)

(* The solver with degree_error 0 and every colour value 0 *)
Colourless ==
    [Self EXCEPT !.degree_error = 0,
                 !.calc_sources = [i \in DOMAIN calc_sources |->
                                      [calc_sources[i] EXCEPT !.mean_color = 0]],
                 !.real_sources = [i \in DOMAIN real_sources |->
                                      [real_sources[i] EXCEPT !.mean_color = 0]]]

(* The calculated field angles the residual of (source i, time t) is made of *)
ResidualAngles(i, t) ==
    [eta |-> get_field_angles(Self, i, t).eta_calc,
     zeta |-> get_field_angles(Self, i, t).zeta_calc]

(* C24, first part: deviate_field_angles_color_aberration returns the four   *)
(* field angles unchanged, and neither the residual nor the error functional *)
(* depends on degree_error or on the colour values.                          *)
ColourStepIsNoOp ==
    /\ error_function(Self) = error_function(Colourless)
    /\ \A i \in 1..Len(calc_sources) : \A j \in 1..Len(calc_sources[i].obs_times) :
          /\ deviate_field_angles_color_aberration(
                 Self, i, calc_sources[i].obs_times[j],
                 get_field_angles(Self, i, calc_sources[i].obs_times[j]))
               = get_field_angles(Self, i, calc_sources[i].obs_times[j])
          /\ compute_R_L(Self, i, calc_sources[i].obs_times[j])
               = compute_R_L(Colourless, i, calc_sources[i].obs_times[j])

(* C24: the colour-aberration step is a no-op in the angle pipeline (the     *)
(* four angles come back unchanged; residual and error do not depend on      *)
(* degree_error or the colours), and the calculated field angles the source  *)
(* Jacobian uses for a row are the ones the residual of that observation     *)
(* uses.                                                                     *)
C24_ColourAberrationNoOp ==
    /\ ColourStepIsNoOp
    /\ \A i \in 1..Len(calc_sources) : \A j \in 1..Len(calc_sources[i].obs_times) :
          dR_ds_angles(Self, i, j, JacobianAttitudes(Self, i)[j].attitude)
              = ResidualAngles(i, calc_sources[i].obs_times[j])

(* C25: an entry of a calculated source's parameter history, once present,   *)
(* never changes its value: whatever step is taken, every entry that is      *)
(* still in the history afterwards reads as it did before (the first entry   *)
(* the initial guess, the entry appended in a pass the parameters at the     *)
(* start of that pass).                                                      *)
C25_HistoryEntriesFrozen ==
    [][\A i \in 1..Len(calc_sources) :
         \A e \in 1..Len(calc_sources[i].s_old) :
            e <= Len(calc_sources'[i].s_old)
            => s_old_values(calc_sources'[i])[e] = s_old_values(calc_sources[i])[e]]_vars

(* The sources as they were when this pass recorded the error of source i:   *)
(* the sources before i with this pass's increment, the others as the pass   *)
(* found them                                                                *)
SourcesWhenRecorded(i) ==
    [k \in 1..Len(calc_sources) |-> IF k < i THEN calc_sources[k] ELSE call.pass_start[k]]

RecordedInThisPass(i) ==
    /\ call.op = "iterate" /\ updating \in SourceModes
    /\ call.pass_start # <<>>
    /\ Len(calc_sources[i].errors) = Len(call.pass_start[i].errors) + 1

(* C26: in a source-block pass, the value appended to the error history of   *)
(* source i is the error functional over all sources evaluated when the      *)
(* sources before i have received this pass's increment and source i and     *)
(* the sources after it have not.                                            *)
C26_ErrorRecordedMidPass ==
    \A i \in 1..Len(calc_sources) :
       RecordedInThisPass(i)
       => calc_sources[i].errors[Len(calc_sources[i].errors)]
             = error_function([Self EXCEPT !.calc_sources = SourcesWhenRecorded(i)]).val

(* A pass over two sources has recorded different errors for the two: the    *)
(* first source's increment lies between the two evaluations                 *)
C26_Witness ==
    /\ Len(calc_sources) = 2
    /\ RecordedInThisPass(1) /\ RecordedInThisPass(2)
    /\ calc_sources[1].s_params # call.pass_start[1].s_params
    /\ calc_sources[1].errors[Len(calc_sources[1].errors)]
          # calc_sources[2].errors[Len(calc_sources[2].errors)]

(* The (source, time) pairs of the error functional whose time lies in the   *)
(* supports of the spans m and n                                             *)
PairsInSupports(m, n) ==
    SelectSeq(ObservationPairs(calc_sources, 1),
              LAMBDA p : InSupport(m, p[2]) /\ InSupport(n, p[2]))

(* What the pair (source, time) contributes, computed with its own source *)
PairTerms(p) == TermsAt(Self, p[2], p[1], IndexOf(all_obs_times, p[2]))

(* Right-hand side and normal matrix with every pair counted once *)
PairwiseRHS ==
    AssembleVector(
        Vec([n \in 1..Len(att_coeffs[1]) |->
            VecScale(-1, SumVectors(Vec([i \in 1..Len(PairsInSupports(n, n)) |->
                RHSTerm(Self, n, PairTerms(PairsInSupports(n, n)[i]))])))]),
        Len(att_coeffs[1]))

PairwiseLHS ==
    Mat([r \in 1..(4 * Len(att_coeffs[1])) |-> [c \in 1..(4 * Len(att_coeffs[1])) |->
        SumSeq(Vec([i \in 1..Len(PairsInSupports(((c - 1) \div 4) + 1, ((r - 1) \div 4) + 1)) |->
            NaaTerm(Self, ((c - 1) \div 4) + 1, ((r - 1) \div 4) + 1,
                    PairTerms(PairsInSupports(((c - 1) \div 4) + 1, ((r - 1) \div 4) + 1)[i])
                   )[((r - 1) % 4) + 1][((c - 1) % 4) + 1]]))]])

(* C27: every (source, time) pair the error functional sums over contributes *)
(* exactly once, with its own source and residual, to the attitude normal    *)
(* matrix and right-hand side of each span whose support holds the time,     *)
(* also when two sources share an observation time.                          *)
C27_EveryPairContributesOnce ==
    [][pc = "A_block" => /\ self_h' = PairwiseRHS
                         /\ self_N_aa' = PairwiseLHS]_vars

(* The passes counted for source i whose entry is already in its error       *)
(* history: inside a source-block pass the sources from call.star on have    *)
(* not yet recorded the pass that iter_counter already counts                *)
PassesRecorded(i) ==
    IF pc = "S_block" /\ i >= call.star THEN iter_counter - 1 ELSE iter_counter

HistoriesMatchCounter ==
    \A i \in 1..Len(calc_sources) : Len(calc_sources[i].errors) = PassesRecorded(i)

(* C28: in the source modes, as long as no call has failed, every source's   *)
(* error history has exactly iter_counter entries between passes and after   *)
(* every iterate or reset_iterations call: this holds at construction, every *)
(* step that does not fail keeps it, and reset_iterations restores it.       *)
C28_ErrorHistoryLengthIsCounter ==
    /\ (updating \in SourceModes => HistoriesMatchCounter)
    /\ [][(/\ updating \in SourceModes
           /\ status' \in {"ok", "running"}
           /\ HistoriesMatchCounter \/ call'.op = "reset_iterations")
          => HistoriesMatchCounter']_vars

(* A second successful iterate call over two sources has returned *)
C28_Witness ==
    /\ pc = "idle" /\ status = "ok"
    /\ updating \in SourceModes
    /\ call.op = "iterate" /\ call.start > 0 /\ call.num > 0
    /\ Len(calc_sources) = 2
    /\ \A i \in 1..2 : Len(calc_sources[i].errors) = iter_counter

(* A step that is one call of reset_iterations *)
ResetStep == pc = "idle" /\ ncalls' = ncalls + 1 /\ call'.op = "reset_iterations"

(* C29: reset_iterations sets iter_counter to 0 and empties the parameter    *)
(* history and the error history of every calculated source, and changes     *)
(* nothing else: the sources' current parameters, observation times and      *)
(* colours, the attitude coefficients, knots and splines, the mode and the   *)
(* time index stay as the passes run so far have left them.                  *)
C29_ResetClearsHistoriesOnly ==
    [][ResetStep =>
          /\ iter_counter' = 0
          /\ Len(calc_sources') = Len(calc_sources)
          /\ \A i \in 1..Len(calc_sources) :
                /\ calc_sources'[i].s_old = <<>>
                /\ calc_sources'[i].errors = <<>>
                /\ calc_sources'[i].s_params = calc_sources[i].s_params
                /\ calc_sources'[i].obs_times = calc_sources[i].obs_times
                /\ calc_sources'[i].mean_color = calc_sources[i].mean_color
          /\ UNCHANGED <<updating, verbose, real_sources, att_coeffs, att_knots,
                         attitude_splines, att_bases, time_dict, all_obs_times,
                         attitude_regularisation_factor, degree_error,
                         self_d, self_c_update, self_N_aa, self_h>>]_vars

(* reset_iterations has returned on a solver whose earlier pass had moved a  *)
(* source away from every initial guess of the scenarios                     *)
C29_Witness ==
    /\ pc = "idle" /\ call.op = "reset_iterations" /\ status = "ok"
    /\ updating \in SourceModes
    /\ iter_counter = 0
    /\ \E i \in 1..Len(calc_sources) :
          /\ calc_sources[i].s_params # real_sources[i].params
          /\ calc_sources[i].s_params # VecAdd(real_sources[i].params, <<1, 1, 1, 1, 1>>)
          /\ calc_sources[i].s_old = <<>> /\ calc_sources[i].errors = <<>>

====
